---- MODULE Spec2Model ----
(***************************************************************************)
(* A model of the graph-talk engine (src/gt/core.py, src/utils.py): the    *)
(* ranked Handler dispatch, the stepwise Process interpreter with its      *)
(* context / transaction / state layers, and the control-flow elements     *)
(* (ParsingRelation, SelectiveNotion, LoopRelation) that drive it.         *)
(*                                                                         *)
(* Message tokens are records [t, v]: t = "str" (v a string), "bool",      *)
(* "dict" (v a mapping from command keys to arguments), "elem" (v the name *)
(* of a graph element).  Python dicts are functions whose DOMAIN is the    *)
(* set of present keys.  The bookkeeping keys sender / rank / condition /  *)
(* event that Handler.handle writes on every dispatch are kept out of the  *)
(* Process context variable; they are modelled in the Handler part.        *)
(***************************************************************************)
EXTENDS Integers, Sequences, FiniteSets, TLC

(***************************************************************************)
(* Reserved vocabulary                                                     *)
(***************************************************************************)
NEXT == "next"
PREVIOUS == "previous"
QUERY == "query"
NEW_TOKEN == "new"
OK == "ok"
STOP == "stop"
ERROR == "error"
BREAK == "break"
CONTINUE == "continue"
PROCEED == "proceed"
PUSH_CONTEXT == "push_context"
POP_CONTEXT == "pop_context"
FORGET_CONTEXT == "forget_context"
ADD_CONTEXT == "add_context"
UPDATE_CONTEXT == "update_context"
DELETE_CONTEXT == "delete_context"
SET_STATE == "set_state"
\* StatefulProcess.STATE (STATE is a reserved word here)
STATE_KEY == "state"
CLEAR_STATE == "clear_state"
TEXT == "text"
PARSED_LENGTH == "parsed_length"
LAST_PARSED == "last_parsed"

\* Element.FORWARD and Element.BACKWARD (after ParsingProcess extended it)
FORWARD == {NEXT}
every_turn == {NEXT, PREVIOUS, ERROR, BREAK, CONTINUE}
BACKWARD == {PREVIOUS, ERROR, BREAK, CONTINUE}

\* Python's None where a name of an element is expected
None == "None"

(***************************************************************************)
(* Bounds of the model                                                     *)
(***************************************************************************)
\* longest text handed to a top-level call
MaxText == 2
\* largest numeric loop bound
MaxCount == 3
\* number of commands the user action of the driver element may emit
MaxCmds == 5
\* the same where the caller calls again after a run has ended
MaxRunCmds == 3

\* str.upper() over the letters of the model
UpperOf(c) == CASE c = "a" -> "A" [] c = "b" -> "B" [] c = "c" -> "C"
                [] c = "t" -> "T" [] OTHER -> c
RECURSIVE Upper(_)
Upper(s) == IF s = "" THEN "" ELSE UpperOf(SubSeq(s, 1, 1)) \o Upper(SubSeq(s, 2, Len(s)))

(***************************************************************************)
(* Tokens and handler results                                              *)
(***************************************************************************)
Str(s) == [t |-> "str", v |-> s]
Bool(b) == [t |-> "bool", v |-> b]
Dict(d) == [t |-> "dict", v |-> d]
Elem(e) == [t |-> "elem", v |-> e]
Num(n) == [t |-> "num", v |-> n]
\* a handler result that is a list or tuple, and Python's None
List(seq) == [t |-> "list", v |-> seq]
NoneTok == [t |-> "none", v |-> 0]

\* a Python dict with the single entry k: x
One(k, x) == [j \in {k} |-> x]
\* d with key k set to x / with key k removed
Put(d, k, x) == [j \in DOMAIN d \cup {k} |-> IF j = k THEN x ELSE d[j]]
Del(d, k) == [j \in DOMAIN d \ {k} |-> d[j]]
EmptyDict == [j \in {} |-> 0]

IsStr(tok, s) == tok.t = "str" /\ tok.v = s

\* has_first(message, s) for a string s
HasFirst(message, s) == Len(message) > 0 /\ IsStr(message[1], s)

\* Element.is_forward
is_forward(message) == Len(message) > 0 /\ message[1].t = "str" /\ message[1].v \in FORWARD

Min(a, b) == IF a < b THEN a ELSE b
Max(a, b) == IF a > b THEN a ELSE b

\* s[:n] and s[n:] of a Python string; a negative n counts from the end
Take(s, n) == SubSeq(s, 1, IF n >= 0 THEN Min(n, Len(s)) ELSE Max(Len(s) + n, 0))
Drop(s, n) == SubSeq(s, (IF n >= 0 THEN Min(n, Len(s)) ELSE Max(Len(s) + n, 0)) + 1, Len(s))

(***************************************************************************)
(* Condition (ranks only; -1 is NO_CHECK)                                  *)
(***************************************************************************)
\* Condition.check_string on a message whose head is the token tok
check_string(p, tok) ==
    IF tok.t = "str" /\ Take(tok.v, Len(p)) = p THEN Len(p) ELSE -1

\* Condition.check_string on a plain string head (the text of a parse)
check_text(p, s) == IF Take(s, Len(p)) = p THEN Len(p) ELSE -1

\* Condition.check_boolean
check_boolean(b, tok) == IF tok.t = "bool" /\ tok.v = b THEN 0 ELSE -1

\* Condition.check_function on a predicate that answers a boolean
check_function(b) == IF b THEN 0 ELSE -1

\* Condition.check_list: the highest rank of the sub-conditions, first on ties
RECURSIVE check_list(_)
check_list(ranks) ==
    IF ranks = <<>> THEN -1
    ELSE LET rest == check_list(Tail(ranks))
         IN IF rest > Head(ranks) THEN rest ELSE Head(ranks)

(***************************************************************************)
(* Handler: choice of the event to run                                     *)
(***************************************************************************)
\* a choice that lets a later pair replace the current one on an equal rank
RECURSIVE BestFromLatest(_, _, _, _)
BestFromLatest(ranks, i, best, rank) ==
    IF i > Len(ranks) THEN best
    ELSE IF ranks[i] >= rank THEN BestFromLatest(ranks, i + 1, i, ranks[i])
         ELSE BestFromLatest(ranks, i + 1, best, rank)

\* The loop of Handler.handle over the active pairs: the index of the pair
\* that wins (0 when every rank is below 0).  A later pair replaces the
\* current choice only with a strictly greater rank.
RECURSIVE BestFrom(_, _, _, _)
BestFrom(ranks, i, best, rank) ==
    IF i > Len(ranks) THEN best
    ELSE IF ranks[i] > rank THEN BestFrom(ranks, i + 1, i, ranks[i])
         ELSE BestFrom(ranks, i + 1, best, rank)

Best(ranks) == BestFrom(ranks, 1, 0, -1)

\* Handler.update_events: the registered pairs whose tags are all active,
\* in registration order
RECURSIVE ActiveOf(_, _)
ActiveOf(events, tags) ==
    IF events = <<>> THEN <<>>
    ELSE IF Head(events).tags \subseteq tags
         THEN <<Head(events)>> \o ActiveOf(Tail(events), tags)
         ELSE ActiveOf(Tail(events), tags)

(***************************************************************************)
(* Transaction log (src/utils.py).  The two dictionaries an operation can  *)
(* target are named "context" and "states"; D is the pair of them, with    *)
(* ok = FALSE once an operation raised KeyError.                           *)
(***************************************************************************)
ADD == "add"
SET == "set"
DELETE == "delete"

\* DictChangeOperation.__init__
Operation(dict, type, key, value) ==
    [dict |-> dict, type |-> type, key |-> key, value |-> value, old |-> None]

\* D with dictionary name d replaced by nd
WithDict(D, d, nd) == [D EXCEPT ![d] = nd]
Failed(D) == [D EXCEPT !.ok = FALSE]

\* DictChangeOperation.do: the operation as it is afterwards (a set of an
\* absent key turns into an add; set and delete remember the old value)
OpAfterDo(op, D) ==
    LET present == op.key \in DOMAIN D[op.dict]
        type == IF op.type = SET /\ ~present THEN ADD ELSE op.type
    IN IF type = ADD THEN [op EXCEPT !.type = ADD]
       ELSE IF present THEN [op EXCEPT !.old = D[op.dict][op.key]]
       ELSE op

\* DictChangeOperation.do: the dictionaries afterwards
DictsAfterDo(op, D) ==
    LET present == op.key \in DOMAIN D[op.dict]
        type == IF op.type = SET /\ ~present THEN ADD ELSE op.type
    IN IF type \in {ADD, SET} THEN WithDict(D, op.dict, Put(D[op.dict], op.key, op.value))
       ELSE IF present THEN WithDict(D, op.dict, Del(D[op.dict], op.key))
       ELSE Failed(D)

\* DictChangeOperation.undo
OpUndo(op, D) ==
    IF op.type = ADD
    THEN IF op.key \in DOMAIN D[op.dict]
         THEN WithDict(D, op.dict, Del(D[op.dict], op.key))
         ELSE Failed(D)
    ELSE WithDict(D, op.dict, Put(D[op.dict], op.key, op.old))

\* a merge that looks at the dictionary and the key only, whatever the types
MergeAnyType(last, other, D) == other.dict = last.dict /\ other.key = last.key

\* DictChangeOperation.merge: whether other is folded into last.  The
\* dictionaries are compared with ==, by what they hold
CanMerge(last, other, D) ==
    /\ other.type = SET /\ last.type = SET /\ other.key = last.key
    /\ D[other.dict] = D[last.dict]

\* DictChangeGroup.add, the stack afterwards: a merged operation only
\* replaces the value of the last entry, any other is appended as done
GroupAdd(stack, op, D) ==
    IF stack # <<>> /\ CanMerge(stack[Len(stack)], op, D)
    THEN [stack EXCEPT ![Len(stack)].value = op.value]
    ELSE Append(stack, OpAfterDo(op, D))

\* DictChangeGroup.undo: the operations are undone last to first
RECURSIVE GroupUndo(_, _)
GroupUndo(stack, D) ==
    IF stack = <<>> \/ ~D.ok THEN D
    ELSE GroupUndo(SubSeq(stack, 1, Len(stack) - 1), OpUndo(stack[Len(stack)], D))

(***************************************************************************)
(* State                                                                   *)
(***************************************************************************)
VARIABLES
    cfg,            \* the graph that was built: the parameters of its elements
    queue,          \* Process._queue: frames [current, message], top last
    context,        \* Process.context
    query,          \* Process.query: the direction elements are asked with
    context_stack,  \* StackingProcess._context_stack: open groups, top last
    states,         \* StatefulProcess.states: element -> its state mapping
    pc,             \* "idle" before the call, "run" in the loop of handle,
                    \* "done" after it returned, "raised" after an exception
    result,         \* result[0] of the last dispatch of the loop
    fed,            \* number of commands the driver's user action has emitted
    last,           \* the event the last step ran ("" before the first)
    snaps,          \* history: per open group, the dictionaries at its push
    popped,         \* history: the snapshot of the group closed by the last step
    trail,          \* history: what the control-flow elements answered
    handler,        \* the Handler fields (registered pairs, tags, active pairs,
                    \* unknown_event) of the Process, or of a bare Handler in
                    \* the Handler family, and a record of its last dispatch
    event,          \* an Event outside any Handler: its value, its hooks and a
                    \* record of its last run
    changes,        \* a DictChangeGroup outside any Process: the two mappings
                    \* its operations work on, its stack, and as history the
                    \* mappings when it was made and the operation added last
    access,         \* a Condition outside any Handler: the value it was made
                    \* from, its fields, the message checked last and the outcome
    elements        \* elements outside any Process: Relation.subject,
                    \* ComplexNotion.relations, Element.owner, the collections and
                    \* the root of each Graph, and a log of the assignments made

\* the variables of the Process and all variables
pvars == <<cfg, queue, context, query, context_stack, states, pc, result, fed,
           last, snaps, popped, trail>>
\* the objects outside the Process
ovars == <<event, changes, access, elements>>
vars == <<pvars, handler, ovars>>

\* Process.message / Process.current: the fields of the top frame
message == queue[Len(queue)].message
current == queue[Len(queue)].current

Frame(c, m) == [current |-> c, message |-> m]

(***************************************************************************)
(* Process: tags and registered pairs                                      *)
(***************************************************************************)
\* tags that say a group is open whether or not one is
tags_always_tracking ==
    (IF message # <<>>
     THEN {"message"} \cup
          (IF message[1].t = "str" THEN {"string"}
           ELSE IF message[1].t = "bool" THEN {"bool"}
           ELSE IF message[1].t = "dict" THEN {"dict"}
           ELSE {"other"})
     ELSE {"empty_message"})
    \cup (IF current # None THEN {"current"} ELSE {})
    \cup {"tracking"}
    \cup (IF DOMAIN states # {} THEN {"has_states"} ELSE {})
\* Process.update_tags with the additions of StackingProcess and
\* StatefulProcess
update_tags ==
    (IF message # <<>>
     THEN {"message"} \cup
          (IF message[1].t = "str" THEN {"string"}
           ELSE IF message[1].t = "bool" THEN {"bool"}
           ELSE IF message[1].t = "dict" THEN {"dict"}
           ELSE {"other"})
     ELSE {"empty_message"})
    \cup (IF current # None THEN {"current"} ELSE {})
    \cup (IF context_stack # <<>> THEN {"tracking"} ELSE {})
    \cup (IF DOMAIN states # {} THEN {"has_states"} ELSE {})

Pair(c, e, tags) == [cond |-> c, event |-> e, tags |-> tags]

\* setup_handlers of Process, SharedProcess, StackingProcess,
\* StatefulProcess and ParsingProcess, in registration order
ProcessEvents == <<
    Pair("stop_ok", "do_finish", {"string"}),
    Pair("true_false", "do_finish", {"bool"}),
    Pair("query", "do_query", {"string", "current"}),
    Pair("can_push_queue", "do_queue_push", {"other"}),
    Pair("can_pop_queue", "do_queue_pop", {"empty_message"}),
    Pair("can_clear_message", "do_clear_message", {"message"}),
    Pair("can_add_context", "do_add_context", {"dict"}),
    Pair("can_update_context", "do_update_context", {"dict"}),
    Pair("can_delete_context", "do_delete_context", {"dict"}),
    Pair("push_context", "do_push_context", {"string"}),
    Pair("pop_context", "do_pop_context", {"tracking", "string"}),
    Pair("forget_context", "do_forget_context", {"tracking", "string"}),
    Pair("can_set_state", "do_set_state", {"current", "dict"}),
    Pair("clear_state", "do_clear_state", {"current", "has_states", "string"}),
    Pair("turn", "do_turn", {"string"}),
    Pair("can_proceed", "do_proceed", {"dict"}) >>

\* Process.setup_handlers alone: the pairs of a plain Process
PlainEvents == SubSeq(ProcessEvents, 1, 6)

\* the text of the parse: ParsingProcess.text
text == IF TEXT \in DOMAIN context THEN context[TEXT] ELSE ""
parsed_length == IF PARSED_LENGTH \in DOMAIN context THEN context[PARSED_LENGTH] ELSE 0
last_parsed == IF LAST_PARSED \in DOMAIN context THEN context[LAST_PARSED] ELSE ""

\* truth value of a token (Python's bool(x))
Truthy(tok) ==
    CASE tok.t = "str" -> tok.v # ""
      [] tok.t = "bool" -> tok.v
      [] tok.t = "dict" -> DOMAIN tok.v # {}
      [] tok.t = "none" -> FALSE
      [] tok.t = "list" -> tok.v # <<>>
      [] tok.t = "num" -> tok.v # 0
      [] OTHER -> TRUE

\* The rank a condition of the Process gives for the head h of the message.
\* Conditions tagged with the shape of the head are asked only about heads
\* of that shape; can_pop_queue is asked only on an empty message (h unused).
CondRank(c, h) ==
    CASE c = "stop_ok" -> check_list(<<check_string(STOP, h), check_string(OK, h)>>)
      [] c = "true_false" -> check_list(<<check_boolean(TRUE, h), check_boolean(FALSE, h)>>)
      [] c = "query" -> check_string(QUERY, h)
      [] c = "can_push_queue" -> check_function(h.t = "elem")
      [] c = "can_pop_queue" -> check_function(Len(queue) > 1)
      [] c = "can_clear_message" -> check_function(~Truthy(h))
      [] c = "can_add_context" -> check_function(ADD_CONTEXT \in DOMAIN h.v)
      [] c = "can_update_context" -> check_function(UPDATE_CONTEXT \in DOMAIN h.v)
      [] c = "can_delete_context" -> check_function(DELETE_CONTEXT \in DOMAIN h.v)
      [] c = "push_context" -> check_string(PUSH_CONTEXT, h)
      [] c = "pop_context" -> check_string(POP_CONTEXT, h)
      [] c = "forget_context" -> check_string(FORGET_CONTEXT, h)
      [] c = "can_set_state" -> check_function(SET_STATE \in DOMAIN h.v)
      [] c = "clear_state" -> check_string(CLEAR_STATE, h)
      [] c = "turn" -> check_list(<<check_string(NEXT, h), check_string(ERROR, h),
                                    check_string(BREAK, h), check_string(CONTINUE, h)>>)
      [] c = "can_proceed" ->
            check_function(PROCEED \in DOMAIN h.v /\ TEXT \in DOMAIN context
                           /\ Len(context[TEXT]) >= h.v[PROCEED])

\* Handler.update_events on the Handler fields hd
update_events(hd) == [hd EXCEPT !.active_events = ActiveOf(hd.events, hd.tags)]

\* an update that stores the new tags and leaves the active pairs as they were
update_tags_only ==
    [handler EXCEPT !.tags = update_tags]

\* Handler.update, which the loop of Process.handle calls before every
\* dispatch: when the tags of the step differ from the stored ones they are
\* stored and the active pairs are filtered again
update ==
    IF update_tags # handler.tags
    THEN update_events([handler EXCEPT !.tags = update_tags])
    ELSE handler

\* Handler.active_events as the dispatch of the current step reads it
active_events == update.active_events

\* the Handler fields after the step, with the tags the step computed
Dispatched == [update EXCEPT !.seen = update_tags]

\* the head of the message, or a placeholder on an empty message
Head0 == IF message # <<>> THEN message[1] ELSE Str("")

ActiveRanks == [i \in 1..Len(active_events) |-> CondRank(active_events[i].cond, Head0)]

\* ParsingProcess.can_proceed on a mapping with a proceed number and a
\* context without text: len(self.context.get(TEXT)) raises TypeError
proceed_raises(h) ==
    h.t = "dict" /\ PROCEED \in DOMAIN h.v /\ TEXT \notin DOMAIN context

\* The event Handler.handle runs in this step ("" when no rank reaches 0,
\* "TypeError" when a condition it asks raises: every condition is asked
\* before any event runs)
Winner ==
    LET Event(act, b) == IF b = 0 THEN "" ELSE act[b].event
        Asked(act) == \E i \in 1..Len(act) : act[i].cond = "can_proceed"
        Found(act) == IF message # <<>> /\ Asked(act) /\ proceed_raises(Head0)
                      THEN "TypeError"
                      ELSE Event(act, Best(ActiveRanks))
    IN Found(active_events)

(***************************************************************************)
(* The graph.  Its shape is fixed, the parameters of its elements are in   *)
(* cfg:                                                                    *)
(*   D  ActionNotion whose user action emits commands of cfg.menu          *)
(*   S  SelectiveNotion with relations C1, C2 (and C3 when cfg.n = 3),     *)
(*      default cfg.dflt; Ci is a ParsingRelation with literal cfg.p[i],   *)
(*      optional when cfg.opt[i], to Ai; C3 leads to X                     *)
(*   A1 ComplexNotion with relations L1, Q1 (only Q1 unless cfg.nest);     *)
(*      A2 ComplexNotion with relation Q2; Qi a ParsingRelation with       *)
(*      literal cfg.q[i] to X                                              *)
(*   L1 LoopRelation with the wildcard "*" to B; B ComplexNotion with the  *)
(*      ParsingRelation PB (literal "a") to X                              *)
(*   L0 LoopRelation with condition cfg.loop to O; O ComplexNotion with    *)
(*      relations NS, PO (only PO unless cfg.onest); NS NextRelation to S; *)
(*      PO ParsingRelation with literal cfg.po to X                        *)
(*   X  Notion                                                             *)
(* An empty literal stands for a relation built without condition.         *)
(***************************************************************************)
\* LoopRelation.INFINITY, float('inf'), as a number no counter reaches
INFINITY == -1

kind(e) ==
    CASE e = "D" -> "ActionNotion"
      [] e = "S" -> "SelectiveNotion"
      [] e \in {"A1", "A2", "B", "O", "A"} -> "ComplexNotion"
      [] e \in {"C1", "C2", "C3", "Q1", "Q2", "PB", "PO"} -> "ParsingRelation"
      [] e \in {"L0", "L1"} -> "LoopRelation"
      [] e \in {"NS", "NA"} -> "NextRelation"
      [] OTHER -> "Notion"

\* ComplexNotion.relations
relations(e) ==
    CASE e = "S" -> IF cfg.n = 3 THEN <<"C1", "C2", "C3">> ELSE <<"C1", "C2">>
      [] e = "A1" -> IF cfg.nest THEN <<"L1", "Q1">> ELSE <<"Q1">>
      [] e = "A2" -> <<"Q2">>
      [] e = "B" -> <<"PB">>
      [] e = "O" -> IF cfg.onest THEN <<"NS", "PO">> ELSE <<"PO">>
      [] e = "A" -> <<"NA">>
      [] OTHER -> <<>>

\* Relation.object
object(e) ==
    CASE e = "C1" -> cfg.cobj
      [] e = "C2" -> "A2"
      [] e = "L1" -> "B"
      [] e = "L0" -> cfg.lobj
      [] e = "NS" -> "S"
      [] OTHER -> "X"

\* the literal of a ParsingRelation's condition
literal(e) ==
    CASE e = "C1" -> cfg.p[1]
      [] e = "C2" -> cfg.p[2]
      [] e = "C3" -> cfg.p[3]
      [] e = "Q1" -> cfg.q[1]
      [] e = "Q2" -> cfg.q[2]
      [] e = "PB" -> "a"
      [] e = "PO" -> cfg.po

\* ParsingRelation.optional
optional(e) ==
    CASE e = "C1" -> cfg.opt[1]
      [] e = "C2" -> cfg.opt[2]
      [] e = "C3" -> cfg.opt[3]
      [] e = "PO" -> cfg.poopt
      [] OTHER -> FALSE

\* ParsingRelation.check_only
check_only(e) == e = "PO" /\ cfg.pocheck

\* The condition of a LoopRelation: [k |-> "num", n |-> count],
\* [k |-> "range", lo |-> m, hi |-> u] where a side that is None or 0 is
\* written 0, or [k |-> "wild", w |-> "*" / "?" / "+"]
condition(e) == IF e = "L0" THEN cfg.loop ELSE [k |-> "wild", w |-> "*"]

(***************************************************************************)
(* Elements: what an element answers when the Process queries it.  q is    *)
(* the query token (the whole message is (q,)), st the state mapping the   *)
(* Process put under context["state"], txt context["text"], u what the     *)
(* user action of an ActionNotion returns.  An answer is                   *)
(* [result, rank, event, unk]: what Handler.handle returns; unk says the   *)
(* answer came from unknown_event, whose pair (result, function) carries   *)
(* the function where the rank is expected.                                *)
(***************************************************************************)
Answer(r, k, ev) == [result |-> r, rank |-> k, event |-> ev, unk |-> FALSE]
\* Handler.NO_HANDLE
NO_HANDLE == Answer(Bool(FALSE), -1, None)
\* the answer of an element whose unknown_event is on_error
Unknown(r) == [result |-> r, rank |-> -1, event |-> "on_error", unk |-> TRUE]

\* SelectiveNotion.default
default(e) == IF e = "S" THEN cfg.dflt ELSE None

\* LoopRelation.is_numeric / is_wildcard / is_infinite / is_flexible
is_numeric(e) == condition(e).k \in {"num", "range"}
is_wildcard(e) == condition(e).k = "wild"
is_infinite(e) == condition(e).k = "true"
is_flexible(e) == (is_numeric(e) /\ condition(e).k = "range") \/ is_wildcard(e)

\* LoopRelation.is_looping
is_looping(st) == "i" \in DOMAIN st

\* LoopRelation.get_bounds: <<lower, upper>>
get_bounds(e) ==
    LET c == condition(e)
    IN CASE c.k = "num" -> <<1, c.n>>
         [] c.k = "range" -> <<IF c.lo # 0 THEN c.lo ELSE 0,
                               IF c.hi # 0 THEN c.hi ELSE INFINITY>>
         [] c.k = "wild" -> <<IF c.w = "+" THEN 1 ELSE 0,
                              IF c.w = "?" THEN 1 ELSE INFINITY>>
         [] OTHER -> <<INFINITY, INFINITY>>

\* a < b and a <= b where b may be INFINITY
Less(a, b) == a # INFINITY /\ (b = INFINITY \/ a < b)
LessEq(a, b) == b = INFINITY \/ (a # INFINITY /\ a <= b)

\* an iteration reply that opens a group whatever the condition
snapshot_every_iteration(e, i) ==
    (IF i # 1 THEN <<Str(FORGET_CONTEXT)>> ELSE <<>>)
    \o <<Dict(One(SET_STATE, One("i", i)))>>
    \o <<Str(PUSH_CONTEXT)>>
    \o <<Elem(object(e)), Elem(e)>>

\* LoopRelation.get_next_iteration_reply
get_next_iteration_reply(e, i) ==
    (IF is_flexible(e) /\ i # 1 THEN <<Str(FORGET_CONTEXT)>> ELSE <<>>)
    \o <<Dict(One(SET_STATE, One("i", i)))>>
    \o (IF is_flexible(e) THEN <<Str(PUSH_CONTEXT)>> ELSE <<>>)
    \o <<Elem(object(e)), Elem(e)>>

\* a loop reply that goes on up to and including the upper bound
loop_through_upper(e, st) ==
    IF LessEq(st["i"], get_bounds(e)[2])
    THEN get_next_iteration_reply(e, st["i"] + 1)
    ELSE (IF is_flexible(e) THEN <<Str(FORGET_CONTEXT)>> ELSE <<>>)
         \o <<Str(CLEAR_STATE)>>

\* LoopRelation.do_loop_general
do_loop_general(e, st) ==
    IF Less(st["i"], get_bounds(e)[2])
    THEN get_next_iteration_reply(e, st["i"] + 1)
    ELSE (IF is_flexible(e) THEN <<Str(FORGET_CONTEXT)>> ELSE <<>>)
         \o <<Str(CLEAR_STATE)>>

\* an error reply that absorbs a failure from the lower bound itself on
error_from_lower(e, st) ==
    (IF is_flexible(e)
     THEN IF LessEq(get_bounds(e)[1], st["i"]) /\ LessEq(st["i"], get_bounds(e)[2])
          THEN <<Str(NEXT), Str(POP_CONTEXT)>>
          ELSE <<Str(FORGET_CONTEXT)>>
     ELSE <<>>)
    \o <<Str(CLEAR_STATE)>>

\* LoopRelation.do_error_general
do_error_general(e, st) ==
    LET i == st["i"]
        lower == get_bounds(e)[1]
        upper == get_bounds(e)[2]
    IN (IF is_flexible(e)
        THEN IF Less(lower, i) /\ LessEq(i, upper)
             THEN <<Str(NEXT), Str(POP_CONTEXT)>>
             ELSE <<Str(FORGET_CONTEXT)>>
        ELSE <<>>)
       \o <<Str(CLEAR_STATE)>>

\* a break reply that leaves the direction as it is
break_without_turn(e) ==
    (IF is_flexible(e) THEN <<Str(FORGET_CONTEXT)>> ELSE <<>>) \o <<Str(CLEAR_STATE)>>
\* LoopRelation.do_break
do_break(e) ==
    <<Str(NEXT)>> \o (IF is_flexible(e) THEN <<Str(FORGET_CONTEXT)>> ELSE <<>>)
    \o <<Str(CLEAR_STATE)>>

\* the pairs an element has registered and that its tags leave active, in
\* registration order (a LoopRelation with a general condition carries the
\* tag "value", so its custom-loop pairs stay inactive)
ElemEvents(e) ==
    CASE kind(e) = "ComplexNotion" ->
            <<Pair("set_subject", "do_relation", {}), Pair("can_go_forward", "do_forward", {})>>
      [] kind(e) = "SelectiveNotion" ->
            <<Pair("set_subject", "do_relation", {}), Pair("can_go_forward", "do_forward", {}),
              Pair("can_retry", "do_retry", {}), Pair("can_finish", "do_finish", {})>>
      [] kind(e) = "ActionNotion" -> <<Pair("can_go_forward", "action", {})>>
      [] kind(e) \in {"NextRelation", "ParsingRelation"} ->
            <<Pair("can_pass", "next_handler", {})>>
      [] kind(e) = "LoopRelation" ->
            <<Pair("can_pass", "next_handler", {}),
              Pair("can_start_general", "do_start_general", {"value"}),
              Pair("can_loop_general", "do_loop_general", {"value"}),
              Pair("can_error_general", "do_error_general", {"value"}),
              Pair("can_break", "do_break", {}),
              Pair("can_continue", "do_continue", {})>>
      [] OTHER -> <<>>

\* the rank of a condition of element e
ElemCondRank(e, c, q, st, txt) ==
    CASE c = "set_subject" -> check_string("set_subject", Str(q))
      [] c = "can_go_forward" ->
            IF kind(e) = "SelectiveNotion" /\ DOMAIN st # {} THEN -1
            ELSE check_function(q \in FORWARD)
      [] c = "can_retry" -> check_function(DOMAIN st # {} /\ q = ERROR)
      [] c = "can_finish" -> check_function(DOMAIN st # {} /\ q \in FORWARD)
      [] c = "can_pass" ->
            IF q \notin FORWARD THEN -1
            ELSE IF kind(e) = "ParsingRelation" THEN check_text(literal(e), txt)
            ELSE IF kind(e) = "LoopRelation" THEN -1
            ELSE 0
      [] c = "can_start_general" -> check_function(q \in FORWARD /\ ~is_looping(st))
      [] c = "can_loop_general" -> check_function(q \in FORWARD /\ is_looping(st))
      [] c = "can_error_general" -> check_function(q = ERROR /\ is_looping(st))
      [] c = "can_break" -> check_function(q = BREAK /\ is_looping(st))
      [] c = "can_continue" -> check_function(q = CONTINUE /\ is_looping(st))

\* a reply of several tokens as tupled() flattens it into a message
Flat(r) == IF r.t = "list" THEN r.v ELSE <<r>>

\* a do_forward that answers the object of the only relation
forward_to_object(e) ==
    LET rels == relations(e)
    IN IF rels = <<>> THEN NoneTok
       ELSE IF Len(rels) = 1 THEN Elem(object(rels[1]))
       ELSE List([i \in 1..Len(rels) |-> Elem(rels[i])])

\* ComplexNotion.do_forward
complex_forward(e) ==
    LET rels == relations(e)
    IN IF rels = <<>> THEN NoneTok
       ELSE IF Len(rels) = 1 THEN Elem(rels[1])
       ELSE List([i \in 1..Len(rels) |-> Elem(rels[i])])

proceed_when_checking(e, rank) ==
    IF kind(e) = "ParsingRelation" /\ rank # 0
    THEN List(<<Dict(One(PROCEED, rank)), Elem(object(e))>>)
    ELSE Elem(object(e))
\* ParsingRelation.next_handler, NextRelation.next_handler
next_handler(e, rank) ==
    IF kind(e) = "ParsingRelation" /\ rank # 0 /\ ~check_only(e)
    THEN List(<<Dict(One(PROCEED, rank)), Elem(object(e))>>)
    ELSE Elem(object(e))

error_in_any_direction(e, q) == IF ~optional(e) THEN Str(ERROR) ELSE NoneTok
\* ParsingRelation.on_error
on_error(e, q) == IF ~optional(e) /\ q \in FORWARD THEN Str(ERROR) ELSE NoneTok

\* the pairs of element e that its tags leave active, and the ranks of the
\* pairs act
ElemActive(e) == ActiveOf(ElemEvents(e), IF kind(e) = "LoopRelation" THEN {"value"} ELSE {})
ElemRanks(e, act, q, st, txt) ==
    [i \in 1..Len(act) |-> ElemCondRank(e, act[i].cond, q, st, txt)]

\* the result of the event ev of a relation e
RelationEvent(e, ev, rank, st) ==
    CASE ev = "next_handler" -> next_handler(e, rank)
      [] ev = "do_start_general" -> List(get_next_iteration_reply(e, 1))
      [] ev = "do_loop_general" -> List(do_loop_general(e, st))
      [] ev = "do_error_general" -> List(do_error_general(e, st))
      [] ev = "do_break" -> List(do_break(e))
      [] ev = "do_continue" -> List(<<Str(NEXT)>> \o do_loop_general(e, st))
      [] OTHER -> NoneTok

\* Handler.handle of a relation e on the message (q,)
RelationHandle(e, q, st, txt) ==
    LET Run(act, ranks, b) ==
            IF b # 0
            THEN Answer(RelationEvent(e, act[b].event, ranks[b], st), ranks[b], act[b].event)
            ELSE IF kind(e) = "ParsingRelation" THEN Unknown(on_error(e, q))
            ELSE NO_HANDLE
        Choose(act, ranks) == Run(act, ranks, Best(ranks))
        Check(act) == Choose(act, ElemRanks(e, act, q, st, txt))
    IN Check(ElemActive(e))

\* SelectiveNotion.get_best_cases.  Where the relation answered through
\* unknown_event, "length" is a function object, which Python 2 orders
\* above every number: it passes length >= 0 and is the maximum.
get_best_cases(e, q, st, txt) ==
    LET Best_cases(ans, cases, max_len) ==
            IF \E i \in 1..Len(cases) : ans[cases[i]].unk
            THEN <<NoneTok>>
            ELSE [j \in 1..Len(SelectSeq(cases, LAMBDA i : ans[i].rank = max_len)) |->
                    ans[SelectSeq(cases, LAMBDA i : ans[i].rank = max_len)[j]].result]
        OrDefault(best) ==
            IF best = <<>> /\ default(e) # None THEN <<Elem(default(e))>> ELSE best
        Cases(ans, cases) ==
            OrDefault(Best_cases(ans, cases,
                                 check_list([i \in 1..Len(cases) |-> ans[cases[i]].rank])))
        Results(ans) ==
            Cases(ans, SelectSeq([i \in 1..Len(ans) |-> i],
                                 LAMBDA i : ~IsStr(ans[i].result, ERROR)
                                            /\ (ans[i].unk \/ ans[i].rank >= 0)))
        Ask(rels) == Results([i \in 1..Len(rels) |-> RelationHandle(rels[i], q, st, txt)])
    IN Ask(SelectSeq(relations(e), LAMBDA r : r # default(e)))

\* SelectiveNotion.do_finish
selective_finish == List(<<Str(FORGET_CONTEXT), Str(CLEAR_STATE)>>)

\* SelectiveNotion.do_forward
selective_forward(e, q, st, txt) ==
    LET Reply(cases) ==
            IF cases = <<>> THEN Str(ERROR)
            ELSE IF Len(cases) = 1 THEN cases[1]
            ELSE List(<<Str(PUSH_CONTEXT), Dict(One(SET_STATE, One("cases", Tail(cases))))>>
                      \o Flat(cases[1]) \o <<Elem(e)>>)
    IN IF Len(relations(e)) < 2 THEN complex_forward(e)
       ELSE Reply(get_best_cases(e, q, st, txt))

\* SelectiveNotion.do_retry
selective_retry(e, st) ==
    LET cases == st["cases"]
    IN IF cases # <<>>
       THEN List(<<Str(POP_CONTEXT), Dict(One(SET_STATE, One("cases", Tail(cases)))),
                   Str(PUSH_CONTEXT), Str(NEXT)>> \o Flat(cases[1]) \o <<Elem(e)>>)
       ELSE selective_finish

\* the result of the event ev of a notion e
NotionEvent(e, ev, q, st, txt, u) ==
    CASE ev = "do_forward" ->
            IF kind(e) = "SelectiveNotion" THEN selective_forward(e, q, st, txt)
            ELSE complex_forward(e)
      [] ev = "do_retry" -> selective_retry(e, st)
      [] ev = "do_finish" -> selective_finish
      [] ev = "action" -> u
      [] OTHER -> NoneTok

\* Handler.handle of a notion e on the message (q,)
NotionHandle(e, q, st, txt, u) ==
    LET Run(act, ranks, b) ==
            IF b # 0
            THEN Answer(NotionEvent(e, act[b].event, q, st, txt, u), ranks[b], act[b].event)
            ELSE NO_HANDLE
        Choose(act, ranks) == Run(act, ranks, Best(ranks))
        Check(act) == Choose(act, ElemRanks(e, act, q, st, txt))
    IN Check(ElemActive(e))

\* Handler.handle of element e on the message (q,)
ElemHandle(e, q, st, txt, u) ==
    IF kind(e) \in {"NextRelation", "ParsingRelation", "LoopRelation"}
    THEN RelationHandle(e, q, st, txt)
    ELSE NotionHandle(e, q, st, txt, u)

\* what do_retry leaves of the state it was handed: it pops the case it
\* retries from the list held in the state store itself
StateAfterQuery(e, q, st) ==
    IF kind(e) = "SelectiveNotion" /\ DOMAIN st # {} /\ q = ERROR /\ st["cases"] # <<>>
    THEN One("cases", Tail(st["cases"]))
    ELSE st

(***************************************************************************)
(* Process: the context seam and the history the checks read               *)
(***************************************************************************)
\* the two dictionaries as the transaction log sees them
Dicts == [context |-> context, states |-> states, ok |-> TRUE]

\* StackingProcess.run_tracking_operation on the pair T = [stack, D]
Track(op, T) ==
    [stack |-> IF T.stack # <<>>
               THEN [T.stack EXCEPT ![Len(T.stack)] = GroupAdd(@, op, T.D)]
               ELSE T.stack,
     D |-> DictsAfterDo(op, T.D)]

\* the operations of ops, tracked one after the other
RECURSIVE TrackAll(_, _)
TrackAll(ops, T) ==
    IF ops = <<>> THEN T ELSE TrackAll(Tail(ops), Track(Head(ops), T))

\* context_add / context_set / context_delete of StackingProcess
context_add(key, value) == Operation("context", ADD, key, value)
context_set(key, value) == Operation("context", SET, key, value)
context_delete(key) == Operation("context", DELETE, key, None)

\* the keys of a dictionary in the order the loop over it visits them
RECURSIVE KeysOf(_)
KeysOf(d) ==
    IF DOMAIN d = {} THEN <<>>
    ELSE LET k == CHOOSE k \in DOMAIN d : TRUE IN <<k>> \o KeysOf(Del(d, k))

\* a snapshot: the dictionaries when the group was pushed, how the groups
\* that were opened inside it have been closed so far and, once it is closed
\* itself, the operations it held
NoSnap == [kind |-> "", context |-> EmptyDict, states |-> EmptyDict, inner |-> {},
           group |-> <<>>]

\* the snapshots after the top group was closed the way `how`
SnapsAfterClose(how) ==
    LET n == Len(snaps)
        rest == SubSeq(snaps, 1, n - 1)
    IN IF n > 1 THEN [rest EXCEPT ![n - 1].inner = @ \cup {how} \cup snaps[n].inner]
       ELSE rest

\* the message with its head removed, put back into the top frame
Popped == [queue EXCEPT ![Len(queue)].message = Tail(message)]
WithHead(h) == [queue EXCEPT ![Len(queue)].message = <<h>> \o Tail(message)]

\* The rest of one round of the loop of Process.handle after the event
\* returned res with the frames q2: stop on ok / stop / False, go on
\* silently on None / True, otherwise put the result in front of the message;
\* the loop ends when neither a message nor a second frame is left.
ends_loop_on_stop(res) == res.t = "str" /\ res.v = STOP
\* result[0] in (OK, STOP, False)
ends_loop(res) ==
    (res.t = "str" /\ res.v \in {OK, STOP}) \/ (res.t = "bool" /\ ~res.v)
AfterEvent(q2, res) ==
    LET brk == ends_loop(res)
        cont == res.t = "none" \/ (res.t = "bool" /\ res.v)
        q3 == IF brk \/ cont THEN q2
              ELSE [q2 EXCEPT ![Len(q2)].message = Flat(res) \o @]
    IN /\ queue' = q3
       /\ result' = res
       /\ pc' = IF brk THEN "done"
                ELSE IF q3[Len(q3)].message # <<>> \/ Len(q3) > 1 THEN "run"
                ELSE "done"

\* an event that changed the dictionaries through the seam and returns None
AfterTracked(q2, T, ev) ==
    /\ context' = T.D.context
    /\ states' = T.D.states
    /\ context_stack' = T.stack
    /\ last' = ev
    /\ popped' = NoSnap
    /\ IF T.D.ok THEN AfterEvent(q2, NoneTok)
       ELSE queue' = q2 /\ result' = NoneTok /\ pc' = "raised"

Here == [stack |-> context_stack, D |-> Dicts]

\* History of the top-level call (the context entries and the message after
\* `new` it passed; whether it met more than one frame, an open group, a
\* private state, and the context keys it met and did not pass) and of the
\* control-flow elements S and L0: for S the cases its last
\* first entry found, the context at that entry, the cases it started so far
\* and how it ended; for L0 how often it sent its object, the context when it
\* was last asked in forward direction, the iteration an error met and how
\* it ended; and the element of the last query with the mapping it found
\* under context["state"].
NoTrail ==
    [sel |-> [cands |-> <<>>, entry |-> EmptyDict, started |-> <<>>, out |-> ""],
     loop |-> [visits |-> 0, good |-> EmptyDict, i |-> 0, out |-> "", depth |-> 0],
     call |-> [entries |-> EmptyDict, rest |-> <<>>, frames |-> FALSE, old |-> {},
               groups |-> FALSE, kept |-> FALSE, new |-> TRUE],
     seen |-> [e |-> None, state |-> EmptyDict]]

TrailAfterQuery(e, ans, st) ==
    LET ev == ans.event
        Entered(cases) ==
            [trail EXCEPT !.sel = [cands |-> cases, entry |-> context,
                                   started |-> IF cases = <<>> THEN <<>> ELSE <<cases[1]>>,
                                   out |-> IF cases = <<>> THEN "error"
                                           ELSE IF Len(cases) = 1 THEN "single"
                                           ELSE "trying"]]
    IN CASE e = "S" /\ ev = "do_forward" /\ Len(relations(e)) > 1 ->
              Entered(get_best_cases(e, query, st, text))
         [] e = "S" /\ ev = "do_retry" ->
              IF st["cases"] # <<>>
              THEN [trail EXCEPT !.sel.started = Append(@, st["cases"][1]),
                                 !.sel.out = IF @ = "trying" THEN @ ELSE "resumed"]
              ELSE [trail EXCEPT !.sel.out = IF @ = "trying" THEN "lost" ELSE "resumed"]
         [] e = "S" /\ ev = "do_finish" ->
              [trail EXCEPT !.sel.out = IF @ = "trying" THEN "won" ELSE "resumed"]
         [] e = "L0" /\ ev = "do_start_general" ->
              [trail EXCEPT !.loop = [visits |-> 1, good |-> context, i |-> 0, out |-> "running",
                                      depth |-> Len(context_stack)]]
         [] e = "L0" /\ ev \in {"do_loop_general", "do_continue"} ->
              IF \E k \in 1..Len(ans.result.v) : ans.result.v[k] = Elem(object(e))
              THEN [trail EXCEPT !.loop.visits = @ + 1, !.loop.good = context]
              ELSE [trail EXCEPT !.loop.good = context, !.loop.out = "done"]
         [] e = "L0" /\ ev = "do_error_general" ->
              [trail EXCEPT !.loop.i = st["i"],
                            !.loop.out = IF IsStr(ans.result.v[1], NEXT) THEN "absorbed"
                                         ELSE "failed"]
         [] e = "L0" /\ ev = "do_break" ->
              [trail EXCEPT !.loop.good = context, !.loop.out = "broken"]
         [] OTHER -> trail

\* self.states.get(e, {})
state_of(e) == IF e \in DOMAIN states THEN states[e] ELSE EmptyDict

\* a query that leaves the key behind
keep_current_state(ctx) == ctx
\* StatefulProcess._add_current_state / _del_current_state
add_current_state(ctx) == Put(ctx, STATE_KEY, state_of(current))
del_current_state(ctx) == Del(ctx, STATE_KEY)

(***************************************************************************)
(* Process: the top-level call and the events of one step                  *)
(***************************************************************************)
\* what the user action of the ActionNotion may return: nothing, or one
\* more command of the menu followed by the notion itself
UserReplies ==
    IF kind(current) = "ActionNotion"
    THEN {NoneTok} \cup (IF fed < cfg.cmds
                         THEN {List(<<cfg.menu[i], Elem(current)>>) : i \in 1..Len(cfg.menu)}
                         ELSE {})
    ELSE {NoneTok}

\* a context that keeps what the earlier call left and adds the new entries
merged_context(old, entries) ==
    [k \in DOMAIN old \cup DOMAIN entries |->
        IF k \in DOMAIN entries THEN entries[k] ELSE old[k]]

\* Process.on_handle for a message that starts with `new`: the context of
\* the run is the dict of the call's entries
new_context(old, entries) == entries

\* the messages a top-level call passes after `new`
Rests == IF cfg.rests = {} THEN {<<Elem(cfg.entry)>>} ELSE cfg.rests

\* on_handle of Process .. ParsingProcess for a message that starts with
\* `new`, and the first test of the loop of handle.  A plain Process has
\* neither groups nor states, and does not touch the direction or the
\* parsing keys.  A caller that calls again (cfg.again) does so after the
\* earlier call returned or raised.
Call ==
    /\ pc = "idle" \/ (cfg.again /\ pc \in {"done", "raised"})
    /\ \E txt \in cfg.texts, extra \in cfg.extras, rest \in Rests :
          LET Started(entries) ==
                  /\ context' = IF cfg.plain THEN new_context(context, entries)
                                 ELSE Put(Put(new_context(context, entries),
                                              PARSED_LENGTH, 0), LAST_PARSED, "")
                  /\ trail' = [NoTrail EXCEPT !.call = [entries |-> entries, rest |-> rest,
                                                        frames |-> Len(queue) > 1,
                                                        old |-> DOMAIN context \ DOMAIN entries,
                                                        groups |-> context_stack # <<>>,
                                                        kept |-> states # EmptyDict,
                                                        new |-> TRUE]]
          IN /\ queue' = <<Frame(None, rest)>>
             /\ Started(Put(extra, TEXT, txt))
    /\ context_stack' = <<>>
    /\ states' = EmptyDict
    /\ query' = IF cfg.plain THEN query ELSE NEXT
    /\ pc' = "run"
    /\ result' = Bool(FALSE)
    /\ last' = "on_handle"
    /\ snaps' = <<>>
    /\ popped' = NoSnap
    /\ UNCHANGED <<ovars, handler, cfg, fed>>

always_push(q, frame) == Append(q, frame)
\* Process.to_queue with both values given: a top frame whose message is
\* empty is updated in place, otherwise a new frame is appended
to_queue(q, frame) ==
    IF q[Len(q)].message = <<>> THEN [q EXCEPT ![Len(q)] = frame]
    ELSE Append(q, frame)

\* a continuation that drops what the earlier call left
replaced_context(old, entries) == entries

\* Process.on_handle for a message that does not start with `new`:
\* context.update(entries)
updated_context(old, entries) ==
    [k \in DOMAIN old \cup DOMAIN entries |->
        IF k \in DOMAIN entries THEN entries[k] ELSE old[k]]

\* on_handle of Process .. ParsingProcess for a message that does not start
\* with `new`, and the first test of the loop of handle: the message goes to
\* the queue with to_queue, the entries are merged into the context, and the
\* subclasses clear the group stack, the states, the direction and the
\* parsing keys as they do for a new run.  The call may pass a text or not.
CallOn ==
    /\ pc = "idle" \/ (cfg.again /\ pc \in {"done", "raised"})
    /\ \E txt \in cfg.texts, extra \in cfg.extras, rest \in Rests, given \in BOOLEAN :
          LET Started(entries) ==
                  /\ context' = IF cfg.plain THEN updated_context(context, entries)
                                 ELSE Put(Put(updated_context(context, entries),
                                              PARSED_LENGTH, 0), LAST_PARSED, "")
                  /\ trail' = [NoTrail EXCEPT !.call = [entries |-> entries, rest |-> rest,
                                                        frames |-> Len(queue) > 1,
                                                        old |-> DOMAIN context \ DOMAIN entries,
                                                        groups |-> context_stack # <<>>,
                                                        kept |-> states # EmptyDict,
                                                        new |-> FALSE]]
          IN /\ queue' = to_queue(queue, Frame(current, rest))
             /\ Started(IF given THEN Put(extra, TEXT, txt) ELSE extra)
    /\ context_stack' = <<>>
    /\ states' = EmptyDict
    /\ query' = IF cfg.plain THEN query ELSE NEXT
    /\ pc' = "run"
    /\ result' = Bool(FALSE)
    /\ last' = "on_handle"
    /\ snaps' = <<>>
    /\ popped' = NoSnap
    /\ UNCHANGED <<ovars, handler, cfg, fed>>

\* Handler.handle found no condition with rank >= 0: the result is False
NoHandle ==
    /\ pc = "run" /\ Winner = ""
    /\ pc' = "done"
    /\ result' = Bool(FALSE)
    /\ last' = ""
    /\ popped' = NoSnap
    /\ handler' = Dispatched
    /\ UNCHANGED <<ovars, cfg, queue, context, query, context_stack, states, fed, snaps, trail>>

\* a condition raised while Handler.handle looked for the best event: the
\* exception leaves the loop of Process.handle and the call
RaiseInCheck ==
    /\ pc = "run" /\ Winner = "TypeError"
    /\ pc' = "raised"
    /\ result' = NoneTok
    /\ last' = "can_proceed"
    /\ popped' = NoSnap
    /\ handler' = Dispatched
    /\ UNCHANGED <<ovars, cfg, queue, context, query, context_stack, states, fed, snaps, trail>>

\* Process.do_finish
DoFinish ==
    /\ pc = "run" /\ Winner = "do_finish"
    /\ AfterEvent(Popped, message[1])
    /\ last' = "do_finish"
    /\ popped' = NoSnap
    /\ handler' = Dispatched
    /\ UNCHANGED <<ovars, cfg, context, query, context_stack, states, fed, snaps, trail>>

\* StatefulProcess.do_query
DoQuery ==
    /\ pc = "run" /\ Winner = "do_query"
    /\ \E u \in UserReplies :
          LET Reply(ans, ctx) ==
                  /\ AfterEvent(Popped, IF Truthy(ans.result) THEN ans.result ELSE Bool(TRUE))
                  /\ trail' = [TrailAfterQuery(current, ans, ctx[STATE_KEY])
                                  EXCEPT !.seen = [e |-> current, state |-> ctx[STATE_KEY]]]
                  /\ context' = del_current_state(ctx)
              Query(ctx) == Reply(ElemHandle(current, query, ctx[STATE_KEY], text, u), ctx)
          IN /\ Query(add_current_state(context))
             /\ fed' = IF u.t = "list" THEN fed + 1 ELSE fed
    /\ states' = IF current \in DOMAIN states
                 THEN [states EXCEPT ![current] = StateAfterQuery(current, query, @)]
                 ELSE states
    /\ last' = "do_query"
    /\ popped' = NoSnap
    /\ handler' = Dispatched
    /\ UNCHANGED <<ovars, cfg, query, context_stack, snaps>>

\* Process.do_queue_push
DoQueuePush ==
    /\ pc = "run" /\ Winner = "do_queue_push"
    /\ AfterEvent(to_queue(Popped, Frame(message[1].v, <<Str(QUERY)>>)), NoneTok)
    /\ last' = "do_queue_push"
    /\ popped' = NoSnap
    /\ handler' = Dispatched
    /\ UNCHANGED <<ovars, cfg, context, query, context_stack, states, fed, snaps, trail>>

\* ParsingProcess.is_parsed
direction_is_next == query = NEXT
is_parsed == query = NEXT /\ text = ""

\* What ParsingProcess.handle returns once the loop of Process.handle has
\* ended with `result`: (False if not is_parsed() and not result[0] == STOP
\* else result[0], parsed_length, result[2]); the third component is left out
parsing_handle ==
    [value |-> IF ~is_parsed /\ ~(result = Str(STOP)) THEN Bool(FALSE) ELSE result,
     length |-> parsed_length]

\* Process.do_queue_pop
DoQueuePop ==
    /\ pc = "run" /\ Winner = "do_queue_pop"
    /\ AfterEvent(SubSeq(queue, 1, Len(queue) - 1), NoneTok)
    /\ last' = "do_queue_pop"
    /\ popped' = NoSnap
    /\ handler' = Dispatched
    /\ UNCHANGED <<ovars, cfg, context, query, context_stack, states, fed, snaps, trail>>

\* Process.do_clear_message
DoClearMessage ==
    /\ pc = "run" /\ Winner = "do_clear_message"
    /\ AfterEvent(Popped, NoneTok)
    /\ last' = "do_clear_message"
    /\ popped' = NoSnap
    /\ handler' = Dispatched
    /\ UNCHANGED <<ovars, cfg, context, query, context_stack, states, fed, snaps, trail>>

\* the head of the message without the command key the event took out
Taken(key) == WithHead(Dict(Del(message[1].v, key)))

\* an add_context that sets every key it is given
add_overwriting(add) ==
    LET keys == KeysOf(add)
    IN [i \in 1..Len(keys) |-> context_add(keys[i], add[keys[i]])]
\* the context_add calls of SharedProcess.do_add_context: one for each key
\* of the command that the context does not hold
do_add_context(add) ==
    LET keys == SelectSeq(KeysOf(add), LAMBDA k : k \notin DOMAIN context)
    IN [i \in 1..Len(keys) |-> context_add(keys[i], add[keys[i]])]

\* SharedProcess.do_add_context
DoAddContext ==
    /\ pc = "run" /\ Winner = "do_add_context"
    /\ LET add == message[1].v[ADD_CONTEXT]
       IN AfterTracked(Taken(ADD_CONTEXT), TrackAll(do_add_context(add), Here),
                       "do_add_context")
    /\ handler' = Dispatched
    /\ UNCHANGED <<ovars, cfg, query, fed, snaps, trail>>

\* SharedProcess.do_update_context
DoUpdateContext ==
    /\ pc = "run" /\ Winner = "do_update_context"
    /\ LET upd == message[1].v[UPDATE_CONTEXT]
           keys == KeysOf(upd)
           ops == [i \in 1..Len(keys) |-> context_set(keys[i], upd[keys[i]])]
       IN AfterTracked(Taken(UPDATE_CONTEXT), TrackAll(ops, Here), "do_update_context")
    /\ handler' = Dispatched
    /\ UNCHANGED <<ovars, cfg, query, fed, snaps, trail>>

\* is_list of a command's value
is_list(tok) == tok.t = "list"

\* SharedProcess.do_delete_context; the argument is a list of keys or a
\* single key (both branches delete what is present)
DoDeleteContext ==
    /\ pc = "run" /\ Winner = "do_delete_context"
    /\ LET delete == IF is_list(message[1].v[DELETE_CONTEXT])
                     THEN message[1].v[DELETE_CONTEXT].v
                     ELSE <<message[1].v[DELETE_CONTEXT].v>>
           \* each key is looked up when its turn comes
           RECURSIVE Each(_, _)
           Each(ks, T) ==
               IF ks = <<>> THEN T
               ELSE Each(Tail(ks), IF Head(ks) \in DOMAIN T.D.context
                                   THEN Track(context_delete(Head(ks)), T) ELSE T)
       IN AfterTracked(Taken(DELETE_CONTEXT), Each(delete, Here), "do_delete_context")
    /\ handler' = Dispatched
    /\ UNCHANGED <<ovars, cfg, query, fed, snaps, trail>>

\* ParsingProcess.do_proceed
proceed_without_last(proceed) ==
    <<context_set(TEXT, Drop(context[TEXT], proceed)),
      context_set(PARSED_LENGTH, parsed_length + proceed)>>
\* the three context_set calls of ParsingProcess.do_proceed
do_proceed(proceed) ==
    <<context_set(TEXT, Drop(context[TEXT], proceed)),
      context_set(PARSED_LENGTH, parsed_length + proceed),
      context_set(LAST_PARSED, Take(context[TEXT], proceed))>>

DoProceed ==
    /\ pc = "run" /\ Winner = "do_proceed"
    /\ AfterTracked(Taken(PROCEED), TrackAll(do_proceed(message[1].v[PROCEED]), Here),
                    "do_proceed")
    /\ handler' = Dispatched
    /\ UNCHANGED <<ovars, cfg, query, fed, snaps, trail>>

\* StatefulProcess.do_set_state (with _set_state)
DoSetState ==
    /\ pc = "run" /\ Winner = "do_set_state"
    /\ LET value == message[1].v[SET_STATE]
           op == Operation("states", IF current \in DOMAIN states THEN SET ELSE ADD,
                           current, value)
       IN AfterTracked(Taken(SET_STATE), Track(op, Here), "do_set_state")
    /\ handler' = Dispatched
    /\ UNCHANGED <<ovars, cfg, query, fed, snaps, trail>>

\* StatefulProcess.do_clear_state (with _clear_state)
DoClearState ==
    /\ pc = "run" /\ Winner = "do_clear_state"
    /\ LET ops == IF current \in DOMAIN states
                  THEN <<Operation("states", DELETE, current, None)>> ELSE <<>>
       IN AfterTracked(Popped, TrackAll(ops, Here), "do_clear_state")
    /\ handler' = Dispatched
    /\ UNCHANGED <<ovars, cfg, query, fed, snaps, trail>>

\* StackingProcess.do_push_context
DoPushContext ==
    /\ pc = "run" /\ Winner = "do_push_context"
    /\ context_stack' = Append(context_stack, <<>>)
    /\ snaps' = Append(snaps, [kind |-> "open", context |-> context, states |-> states,
                              inner |-> {}, group |-> <<>>])
    /\ AfterEvent(Popped, NoneTok)
    /\ last' = "do_push_context"
    /\ popped' = NoSnap
    /\ handler' = Dispatched
    /\ UNCHANGED <<ovars, cfg, context, query, states, fed, trail>>

\* self._context_stack.pop() without an open group: the head is gone and
\* the IndexError of the empty list leaves handle
PopOfNoGroup ==
    /\ queue' = Popped /\ result' = NoneTok /\ pc' = "raised"
    /\ popped' = NoSnap
    /\ UNCHANGED <<context, states, context_stack, snaps>>

\* StackingProcess.do_pop_context
DoPopContext ==
    /\ pc = "run" /\ Winner = "do_pop_context"
    /\ IF context_stack = <<>> THEN PopOfNoGroup
       ELSE /\ LET D == GroupUndo(context_stack[Len(context_stack)], Dicts)
               IN /\ context' = D.context
                  /\ states' = D.states
                  /\ IF D.ok THEN AfterEvent(Popped, NoneTok)
                     ELSE queue' = Popped /\ result' = NoneTok /\ pc' = "raised"
            /\ context_stack' = SubSeq(context_stack, 1, Len(context_stack) - 1)
            /\ snaps' = SnapsAfterClose("pop")
            /\ popped' = [snaps[Len(snaps)] EXCEPT !.kind = "pop",
                                                   !.group = context_stack[Len(context_stack)]]
    /\ last' = "do_pop_context"
    /\ handler' = Dispatched
    /\ UNCHANGED <<ovars, cfg, query, fed, trail>>

\* StackingProcess.do_forget_context
DoForgetContext ==
    /\ pc = "run" /\ Winner = "do_forget_context"
    /\ IF context_stack = <<>> THEN PopOfNoGroup
       ELSE /\ context_stack' = SubSeq(context_stack, 1, Len(context_stack) - 1)
            /\ snaps' = SnapsAfterClose("forget")
            /\ popped' = [snaps[Len(snaps)] EXCEPT !.kind = "forget",
                                                   !.group = context_stack[Len(context_stack)]]
            /\ AfterEvent(Popped, NoneTok)
            /\ UNCHANGED <<context, states>>
    /\ last' = "do_forget_context"
    /\ handler' = Dispatched
    /\ UNCHANGED <<ovars, cfg, query, fed, trail>>

\* ParsingProcess.do_turn
DoTurn ==
    /\ pc = "run" /\ Winner = "do_turn"
    /\ query' = message[1].v
    /\ AfterEvent(IF message[1].v \in BACKWARD
                  THEN [queue EXCEPT ![Len(queue)].message = <<>>]
                  ELSE Popped, NoneTok)
    /\ last' = "do_turn"
    /\ popped' = NoSnap
    /\ handler' = Dispatched
    /\ UNCHANGED <<ovars, cfg, context, context_stack, states, fed, snaps, trail>>

(***************************************************************************)
(* Graphs and specifications                                               *)
(***************************************************************************)
\* Handler.__init__: nothing registered, no tags, no unknown_event.  The
\* fields seen .. ran are history of the last dispatch: the tags the step
\* computed, the message and context handed to handle, the context the event
\* that ran was given, what handle returned and the events it ran.
NoHandler ==
    [events |-> <<>>, tags |-> {}, active_events |-> <<>>, unknown_event |-> None,
     seen |-> {}, message |-> <<>>, before |-> EmptyDict, context |-> EmptyDict,
     answer |-> NO_HANDLE, ran |-> <<>>, how |-> ""]

\* Event.RESULT
RESULT == "result"

\* Event.__init__(value): no hooks; calls and answer are history of the last
\* run: the functions it called, each with what it returned and what it
\* found under context["result"] (a tuple, empty if the key was absent), the
\* pair (result, function) the run returned and the context as the run left
\* it
NewEvent(value) ==
    [value |-> value, pre_event |-> None, post_event |-> None,
     calls |-> <<>>, answer |-> <<NoneTok, None>>, context |-> EmptyDict]
NoEvent == NewEvent(None)

\* The elements outside any Process: the ComplexNotions a and b, of which b
\* is a SelectiveNotion, the Notions x and y, the Relations r1 .. r3 and the
\* Graphs g and h, each constructed with neither owner nor subject, the
\* SelectiveNotion without default and the Graphs without a root.  log and
\* last are history: the subjects assigned so far; the last assignment,
\* whether it raised, and the roots and the defaults it met.
CNotions == {"a", "b"}
SNotions == {"b"}
Notions == CNotions \cup {"x", "y"}
Rels == {"r1", "r2", "r3"}
Graphs == {"g", "h"}
Owned == {"x", "y", "r1", "h"}
NoElements ==
    [subject |-> [r \in Rels |-> None],
     relations |-> [c \in CNotions |-> <<>>],
     owner |-> [e \in Owned |-> None],
     notions |-> [gr \in Graphs |-> <<>>],
     grelations |-> [gr \in Graphs |-> <<>>],
     root |-> [gr \in Graphs |-> None],
     default |-> [c \in SNotions |-> None],
     log |-> <<>>,
     last |-> [op |-> None, of |-> None, value |-> None, raised |-> FALSE,
               before |-> [gr \in Graphs |-> None],
               had |-> [c \in SNotions |-> None]]]

\* DictChangeGroup() and the mappings d1 and d2 as they are when it is made
NewChanges(d1, d2) ==
    [D |-> [d1 |-> d1, d2 |-> d2, ok |-> TRUE],
     stack |-> <<>>,
     before |-> [d1 |-> d1, d2 |-> d2, ok |-> TRUE],
     added |-> <<>>, top |-> <<>>, undone |-> FALSE]
NoChanges == NewChanges(EmptyDict, EmptyDict)

\* Condition(value, ignore_case) of a string value, after setup; nothing
\* checked yet
NewCondition(value, ignore_case) ==
    [made_from |-> value,
     value |-> IF ignore_case THEN Upper(value) ELSE value,
     value_len |-> Len(value),
     ignore_case |-> ignore_case,
     message |-> <<>>, answer |-> <<-1, NoneTok>>, raised |-> None]
NoAccess == NewCondition("", FALSE)

\* a graph with nothing chosen yet
Graph ==
    [entry |-> "D", menu |-> <<>>, texts |-> {""}, extras |-> {EmptyDict},
     n |-> 2, p |-> <<"", "", "">>, q |-> <<"", "">>, opt |-> <<FALSE, FALSE, FALSE>>,
     dflt |-> None, nest |-> FALSE, loop |-> [k |-> "wild", w |-> "*"],
     onest |-> FALSE, po |-> "a", plain |-> FALSE, again |-> FALSE, rests |-> {},
     cmds |-> MaxCmds, poopt |-> FALSE, pocheck |-> FALSE, lobj |-> "O",
     cobj |-> "A1", links |-> [rels |-> Rels, to |-> CNotions \cup {None, "x"}]]

\* Process.__init__ .. ParsingProcess.__init__ for the graph g: the fields
\* of the Process other than those it has as a Handler
Built(g) ==
    /\ cfg = g
    /\ queue = <<Frame(None, <<>>)>>
    /\ context = EmptyDict
    /\ query = NEXT
    /\ context_stack = <<>>
    /\ states = EmptyDict
    /\ pc = "idle"
    /\ result = NoneTok
    /\ fed = 0
    /\ last = ""
    /\ snaps = <<>>
    /\ popped = NoSnap
    /\ trail = NoTrail

\* the Process after __init__: setup_handlers has registered the pairs, and
\* every on() filtered them with the empty tags of Handler.__init__
Created(g) ==
    /\ Built(g)
    /\ event = NoEvent
    /\ access = NoAccess /\ changes = NoChanges
    /\ elements = NoElements
    /\ handler = update_events([NoHandler EXCEPT
                                    !.events = IF g.plain THEN PlainEvents ELSE ProcessEvents])

\* The transaction family: the user action of D emits context commands
TxMenu ==
    << Str(PUSH_CONTEXT), Str(POP_CONTEXT), Str(FORGET_CONTEXT),
       Dict(One(UPDATE_CONTEXT, One("x", 1))),
       Dict(One(UPDATE_CONTEXT, One("x", 3))),
       Dict(One(ADD_CONTEXT, One("x", 2))),
       Dict(One(DELETE_CONTEXT, List(<<"x">>))),
       Dict(One(PROCEED, 1)) >>

InitTx ==
    Created([Graph EXCEPT !.menu = TxMenu, !.texts = {"ab"},
                          !.extras = {EmptyDict, One("x", 0)}])

\* The context command family: the user action of D emits add_context,
\* update_context and delete_context commands with one or two keys, present
\* or not in the context, a delete_context with a single key, and a mapping
\* that holds two commands; no group is open
SharedMenu ==
    << Dict(One(ADD_CONTEXT, [k \in {"x", "y"} |-> IF k = "x" THEN 2 ELSE 5])),
       Dict(One(UPDATE_CONTEXT, One("x", 1))),
       Dict(One(UPDATE_CONTEXT, [k \in {"x", "y"} |-> IF k = "x" THEN 3 ELSE 1])),
       Dict(One(DELETE_CONTEXT, List(<<"x", "y">>))),
       Dict(One(DELETE_CONTEXT, Str("y"))),
       Dict([k \in {ADD_CONTEXT, DELETE_CONTEXT} |->
                IF k = ADD_CONTEXT THEN Dict(One("y", 5)).v ELSE Str("x")]) >>

InitShared ==
    Created([Graph EXCEPT !.menu = SharedMenu, !.texts = {"ab"},
                          !.extras = {EmptyDict, One("x", 0)}, !.cmds = MaxRunCmds])

NextShared ==
    \/ Call
    \/ DoQuery
    \/ DoQueuePush
    \/ DoClearMessage
    \/ DoAddContext
    \/ DoUpdateContext
    \/ DoDeleteContext

SpecShared == InitShared /\ [][NextShared]_vars

NextTx ==
    \/ Call
    \/ NoHandle
    \/ DoQuery
    \/ DoQueuePush
    \/ DoClearMessage
    \/ DoAddContext
    \/ DoUpdateContext
    \/ DoDeleteContext
    \/ DoProceed
    \/ DoPushContext
    \/ DoPopContext
    \/ DoForgetContext

SpecTx == InitTx /\ [][NextTx]_vars

\* The alternation family: the call starts at the SelectiveNotion S
RECURSIVE Words(_)
Words(n) ==
    IF n = 0 THEN {""}
    ELSE Words(n - 1) \cup {w \o c : w \in Words(n - 1), c \in {"a", "b"}}

InitAlt ==
    \E n \in {2, 3}, p1, p2 \in {"", "a", "ab"}, p3 \in {"", "a"}, q1 \in {"a", "b"},
       o2 \in BOOLEAN, d \in {None, "C3"}, nest \in BOOLEAN :
        /\ n = 2 => (p3 = "" /\ d = None)
        /\ Created([Graph EXCEPT !.entry = "S", !.texts = Words(MaxText), !.n = n,
                                 !.p = <<p1, p2, p3>>, !.q = <<q1, "a">>,
                                 !.opt = <<FALSE, o2, FALSE>>, !.dflt = d,
                                 !.nest = nest])

NextAlt ==
    \/ Call
    \/ DoQuery
    \/ DoQueuePush
    \/ DoQueuePop
    \/ DoClearMessage
    \/ DoProceed
    \/ DoPushContext
    \/ DoPopContext
    \/ DoForgetContext
    \/ DoSetState
    \/ DoClearState
    \/ DoTurn

SpecAlt == InitAlt /\ [][NextAlt]_vars

\* The loop family: the call starts at the LoopRelation L0.  Its object O
\* is one ParsingRelation, or (onest) the SelectiveNotion S with two cases
\* tied on "a" followed by that ParsingRelation.  With the loop "*" the
\* Process is also called with the sequence (PO, NS, O), in which a failing
\* PO leaves the others to be queried in direction error.
Loops ==
    {[k |-> "num", n |-> n] : n \in 1..MaxCount}
    \cup {[k |-> "range", lo |-> lo, hi |-> hi] : lo \in 0..MaxCount, hi \in 0..MaxCount}
    \cup {[k |-> "wild", w |-> w] : w \in {"*", "?", "+"}}

InitLoop ==
    \E loop \in Loops, po \in {"a", ""}, onest \in BOOLEAN :
        /\ loop.k = "range" => (loop.hi = 0 \/ loop.lo <= loop.hi)
        \* an object that cannot fail needs a loop with an upper bound
        /\ po = "" => \/ loop.k = "num"
                      \/ loop.k = "range" /\ loop.hi # 0
                      \/ loop.k = "wild" /\ loop.w = "?"
        /\ Created([Graph EXCEPT !.entry = "L0", !.texts = Words(MaxText),
                                 !.loop = loop, !.po = po, !.onest = onest,
                                 !.p = <<"a", "a", "">>, !.q = <<"b", "">>,
                                 !.rests = IF loop = [k |-> "wild", w |-> "*"]
                                           THEN {<<Elem("L0")>>,
                                                 <<Elem("PO"), Elem("NS"), Elem("O")>>}
                                           ELSE {<<Elem("L0")>>}])

NextLoop ==
    \/ Call
    \/ DoQuery
    \/ DoQueuePush
    \/ DoQueuePop
    \/ DoClearMessage
    \/ DoProceed
    \/ DoPushContext
    \/ DoPopContext
    \/ DoForgetContext
    \/ DoSetState
    \/ DoClearState
    \/ DoTurn

SpecLoop == InitLoop /\ [][NextLoop]_vars

\* The break family: the object of the LoopRelation L0 is the ActionNotion
\* D, whose user action ends an iteration with None, break or continue,
\* after it has or has not consumed a character.  D can go on for ever, so
\* the loops are those with an upper bound.
BreakMenu == << Str(BREAK), Str(CONTINUE), Dict(One(PROCEED, 1)) >>

\* The nested family: the object of the loop L0 is the alternation S, whose
\* two cases match the same character; the first leads to the ActionNotion
\* D, which answers None, break or continue, the second to A2.
NestedMenu == << Str(BREAK), Str(CONTINUE) >>

InitNested ==
    \E loop \in Loops :
        /\ loop.k = "range" => (loop.hi # 0 /\ loop.lo <= loop.hi)
        /\ loop.k = "wild" => loop.w = "?"
        /\ Created([Graph EXCEPT !.entry = "L0", !.lobj = "S", !.cobj = "D", !.loop = loop,
                                 !.n = 2, !.p = <<"a", "a", "">>, !.q = <<"b", "">>,
                                 !.menu = NestedMenu, !.texts = Words(MaxText),
                                 !.cmds = MaxRunCmds])

NextNested ==
    \/ Call
    \/ DoQuery
    \/ DoQueuePush
    \/ DoQueuePop
    \/ DoClearMessage
    \/ DoProceed
    \/ DoPushContext
    \/ DoPopContext
    \/ DoForgetContext
    \/ DoSetState
    \/ DoClearState
    \/ DoTurn

SpecNested == InitNested /\ [][NextNested]_vars

InitBreak ==
    \E loop \in Loops :
        /\ loop.k = "range" => (loop.hi # 0 /\ loop.lo <= loop.hi)
        /\ loop.k = "wild" => loop.w = "?"
        /\ Created([Graph EXCEPT !.entry = "L0", !.lobj = "D", !.loop = loop,
                                 !.menu = BreakMenu, !.texts = {"ab"},
                                 !.cmds = MaxRunCmds])

NextBreak ==
    \/ Call
    \/ DoQuery
    \/ DoQueuePush
    \/ DoQueuePop
    \/ DoClearMessage
    \/ DoProceed
    \/ DoPushContext
    \/ DoForgetContext
    \/ DoSetState
    \/ DoClearState
    \/ DoTurn

SpecBreak == InitBreak /\ [][NextBreak]_vars

\* The dispatch family: the user action of D emits heads of every shape,
\* with and without an open group and stored states
DispatchMenu ==
    << Bool(TRUE), Bool(FALSE), Str(STOP), Str(PUSH_CONTEXT), Str(POP_CONTEXT),
       Dict(One(SET_STATE, One("k", 1))), Str(CLEAR_STATE),
       Dict(One(PROCEED, 0)), Dict(One(PROCEED, 1)), Dict(One(PROCEED, 2)) >>

InitDispatch ==
    Created([Graph EXCEPT !.menu = DispatchMenu, !.texts = {"ab"}])

\* The gate family: the user action of D emits the commands that open and
\* close groups and that set and clear its state; the calls also put
\* pop_context, forget_context and clear_state behind D, where the frame
\* that meets them has no current element
GateMenu ==
    << Str(PUSH_CONTEXT), Str(POP_CONTEXT), Str(FORGET_CONTEXT),
       Dict(One(SET_STATE, One("k", 1))), Str(CLEAR_STATE) >>

InitGate ==
    Created([Graph EXCEPT !.menu = GateMenu, !.texts = {"ab"}, !.cmds = MaxRunCmds,
                          !.rests = {<<Elem("D")>>,
                                     <<Elem("D"), Str(POP_CONTEXT)>>,
                                     <<Elem("D"), Str(FORGET_CONTEXT)>>,
                                     <<Elem("D"), Str(CLEAR_STATE)>>}])

NextGate ==
    \/ Call
    \/ NoHandle
    \/ DoQuery
    \/ DoQueuePush
    \/ DoQueuePop
    \/ DoClearMessage
    \/ DoPushContext
    \/ DoPopContext
    \/ DoForgetContext
    \/ DoSetState
    \/ DoClearState

SpecGate == InitGate /\ [][NextGate]_vars

NextDispatch ==
    \/ Call
    \/ NoHandle
    \/ DoFinish
    \/ DoQuery
    \/ DoQueuePush
    \/ DoClearMessage
    \/ DoPushContext
    \/ DoPopContext
    \/ DoSetState
    \/ DoClearState
    \/ DoProceed

SpecDispatch == InitDispatch /\ [][NextDispatch]_vars

\* The run family: a plain Process or a ParsingProcess is called again and
\* again; the user action of D emits terminal tokens, heads no pair knows,
\* and commands that leave a group, a state and a direction behind
RunMenu ==
    << Str(STOP), Str(OK), Bool(TRUE), Bool(FALSE), Dict(One("zzz", 1)),
       Str(PUSH_CONTEXT), Dict(One(SET_STATE, One("k", 1))), Str(ERROR),
       Dict(One(PROCEED, 1)), Str(NEXT), Str(BREAK) >>

InitRun ==
    \E plain \in BOOLEAN :
        Created([Graph EXCEPT !.menu = RunMenu, !.texts = {"", "ab"},
                              !.extras = {EmptyDict, One("x", 0)},
                              !.plain = plain, !.again = TRUE, !.cmds = MaxRunCmds,
                              !.rests = {<<Elem("D")>>, <<Elem("D"), Elem("D")>>,
                                         <<Str(QUERY)>>}])

NextRun ==
    \/ Call
    \/ NoHandle
    \/ DoFinish
    \/ DoQuery
    \/ DoQueuePush
    \/ DoQueuePop
    \/ DoClearMessage
    \/ DoPushContext
    \/ DoSetState
    \/ DoTurn
    \/ DoProceed

SpecRun == InitRun /\ [][NextRun]_vars

\* The continuation family: a plain Process or a ParsingProcess is called
\* with `new` or without it, again and again; the user action of D emits
\* commands that leave frames, a group, a state, consumed text and a
\* direction behind
OnMenu ==
    << Str(STOP), Str(PUSH_CONTEXT), Dict(One(SET_STATE, One("k", 1))),
       Str(ERROR), Dict(One(PROCEED, 1)) >>

InitOn ==
    \E plain \in BOOLEAN :
        Created([Graph EXCEPT !.menu = OnMenu, !.texts = {"ab"},
                              !.extras = {One("x", 0), One("y", 2)},
                              !.plain = plain, !.again = TRUE, !.cmds = MaxRunCmds,
                              !.rests = {<<Elem("D")>>}])

NextOn ==
    \/ Call
    \/ CallOn
    \/ NoHandle
    \/ RaiseInCheck
    \/ DoFinish
    \/ DoQuery
    \/ DoQueuePush
    \/ DoQueuePop
    \/ DoClearMessage
    \/ DoPushContext
    \/ DoSetState
    \/ DoTurn
    \/ DoProceed

SpecOn == InitOn /\ [][NextOn]_vars

\* The consumption family: a ParsingProcess is called with any text; the
\* user action of D emits proceed commands and opens, undoes and forgets
\* groups.  The counting menu has proceed commands of 0, 1 and 2 characters,
\* the other one also a proceed command with a negative number
CountingMenu ==
    << Str(PUSH_CONTEXT), Str(POP_CONTEXT), Str(FORGET_CONTEXT),
       Dict(One(PROCEED, 0)), Dict(One(PROCEED, 1)), Dict(One(PROCEED, 2)) >>

ConsumeMenu == CountingMenu \o << Dict(One(PROCEED, -1)) >>

InitConsume ==
    \E menu \in {CountingMenu, ConsumeMenu} :
        Created([Graph EXCEPT !.menu = menu, !.texts = Words(MaxText),
                              !.extras = {EmptyDict}, !.cmds = MaxRunCmds + 1])

NextConsume ==
    \/ Call
    \/ NoHandle
    \/ DoQuery
    \/ DoQueuePush
    \/ DoClearMessage
    \/ DoProceed
    \/ DoPushContext
    \/ DoPopContext
    \/ DoForgetContext

SpecConsume == InitConsume /\ [][NextConsume]_vars

\* The word family: a plain Process or a ParsingProcess is called with a
\* message of one or two items, none of them an element: reserved strings,
\* strings that start with one, other strings, booleans, numbers, mappings
WordMenu ==
    << Str(OK), Str(STOP), Str("okay"), Str("stopped"), Str("x"), Str(""), Str(QUERY),
       Str(NEXT), Str(PUSH_CONTEXT), Bool(TRUE), Bool(FALSE), Num(0), Num(1),
       Dict(EmptyDict), Dict(One("zzz", 1)), Dict(One(PROCEED, 1)) >>

InitWords ==
    \E plain \in BOOLEAN :
        Created([Graph EXCEPT !.texts = {"ab"}, !.plain = plain,
                              !.rests = {<<WordMenu[i]>> : i \in 1..Len(WordMenu)}
                                        \cup {<<WordMenu[i], WordMenu[j]>> :
                                                 i, j \in 1..Len(WordMenu)}])

NextWords ==
    \/ Call
    \/ NoHandle
    \/ DoFinish
    \/ DoClearMessage
    \/ DoPushContext
    \/ DoProceed
    \/ DoTurn

SpecWords == InitWords /\ [][NextWords]_vars

\* the same where the loop of handle keeps running while it can
SpecWordsLive == SpecWords /\ WF_vars(NextWords)

\* The proceed family: a ParsingProcess is called once, with a text or
\* without one; the user action of D emits proceed commands of 0 characters
\* up to one more than the longest text, and opens and undoes groups
ProceedMenu ==
    [i \in 1..(MaxText + 2) |-> Dict(One(PROCEED, i - 1))]
        \o << Str(PUSH_CONTEXT), Str(POP_CONTEXT) >>

InitProceed ==
    Created([Graph EXCEPT !.menu = ProceedMenu, !.texts = Words(MaxText),
                          !.extras = {EmptyDict}, !.cmds = MaxRunCmds])

NextProceed ==
    \/ Call
    \/ CallOn
    \/ NoHandle
    \/ RaiseInCheck
    \/ DoQuery
    \/ DoQueuePush
    \/ DoClearMessage
    \/ DoProceed
    \/ DoPushContext
    \/ DoPopContext

SpecProceed == InitProceed /\ [][NextProceed]_vars

\* The relation family: a ParsingProcess called with the sequence (PO, PO),
\* PO with any literal, optional or not, check_only or not, on any text; the
\* second query meets PO in the direction the first one left.
InitRelation ==
    \E po \in {"", "a", "ab"}, poopt \in BOOLEAN, pocheck \in BOOLEAN :
        Created([Graph EXCEPT !.texts = Words(MaxText), !.po = po, !.poopt = poopt,
                              !.pocheck = pocheck,
                              !.rests = {<<Elem("PO"), Elem("PO")>>}])

NextOfRelation ==
    \/ Call
    \/ DoQuery
    \/ DoQueuePush
    \/ DoQueuePop
    \/ DoClearMessage
    \/ DoProceed
    \/ DoTurn

SpecRelation == InitRelation /\ [][NextOfRelation]_vars

(***************************************************************************)
(* The Handler family: a bare Handler on which pairs are registered and    *)
(* removed, whose tags and unknown_event are set, and which is called with *)
(* one-token messages.  Its events are user functions that return None.    *)
(***************************************************************************)
\* largest number of pairs registered on the bare Handler
MaxPairs == 3

\* Handler.SENDER, RANK, CONDITION, EVENT
SENDER == "sender"
RANK == "rank"
CONDITION == "condition"
EVENT == "event"

\* the condition on_any registers
TRUE_CONDITION == [t |-> "true", v |-> 0]

\* Condition.NO_CHECK
NO_CHECK == <<-1, NoneTok>>

\* Condition.check of a string condition or of TRUE_CONDITION on the message
\* m: <<rank, check>>
check(c, m) ==
    IF c = TRUE_CONDITION THEN <<0, Bool(TRUE)>>
    ELSE IF m # <<>> /\ check_string(c.v, m[1]) >= 0 THEN <<Len(c.v), c>>
    ELSE NO_CHECK

\* what the bare Handler is built from and called with
Conditions == {Str("a"), Str("ab")}
Events == {"e1", "e2"}
Tags == {"t"}
Messages == {<<>>, <<Str("a")>>, <<Str("ab")>>, <<Str("b")>>}
\* a context that holds the keys of an earlier dispatch
Stale ==
    Put(Put(Put(One(SENDER, "other"), RANK, 7), CONDITION, Str("old")), EVENT, "old")
Contexts == {EmptyDict, Stale}

\* the record of the last dispatch is dropped by every other operation
NoDispatch(hd) ==
    [hd EXCEPT !.seen = {}, !.message = <<>>, !.before = EmptyDict,
               !.context = EmptyDict, !.answer = NO_HANDLE, !.ran = <<>>, !.how = ""]

\* Handler.on_access
on_access(hd, pair) ==
    IF \E i \in 1..Len(hd.events) :
          hd.events[i].cond = pair.cond /\ hd.events[i].event = pair.event
    THEN hd
    ELSE update_events([hd EXCEPT !.events = Append(@, pair)])

\* list.remove of the first pair equal to (c, e)
RECURSIVE Remove(_, _, _)
Remove(events, c, e) ==
    IF events = <<>> THEN <<>>
    ELSE IF Head(events).cond = c /\ Head(events).event = e THEN Tail(events)
    ELSE <<Head(events)>> \o Remove(Tail(events), c, e)

\* Handler.off
off(hd, c, e) ==
    IF \E i \in 1..Len(hd.events) : hd.events[i].cond = c /\ hd.events[i].event = e
    THEN update_events([hd EXCEPT !.events = Remove(@, c, e)])
    ELSE hd

\* a dispatch without a match that ignores the unknown_event
handle_no_fallback(hd, sent) ==
    [hd EXCEPT !.context = sent, !.ran = <<>>, !.answer = NO_HANDLE, !.how = "none"]

\* Handler.handle when no rank reached 0: the unknown_event runs and its
\* pair (result, function) is returned, or the result is NO_HANDLE
handle_unknown(hd, sent) ==
    IF hd.unknown_event # None
    THEN [hd EXCEPT !.context = sent, !.ran = <<hd.unknown_event>>,
                    !.answer = [Unknown(NoneTok) EXCEPT !.event = hd.unknown_event],
                    !.how = "unknown"]
    ELSE [hd EXCEPT !.context = sent, !.ran = <<>>, !.answer = NO_HANDLE, !.how = "none"]

\* Handler.handle(message, context) on the Handler fields hd: the fields
\* with the record of this dispatch
handle(hd, m, ctx) ==
    LET sent == IF SENDER \in DOMAIN ctx THEN ctx ELSE Put(ctx, SENDER, "self")
        act == hd.active_events
        checks == [i \in 1..Len(act) |-> check(act[i].cond, m)]
        b == Best([i \in 1..Len(act) |-> checks[i][1]])
        called == [hd EXCEPT !.message = m, !.before = ctx]
    IN IF b # 0
       THEN [called EXCEPT
               !.context = Put(Put(Put(sent, RANK, checks[b][1]), CONDITION, checks[b][2]),
                               EVENT, act[b].event),
               !.ran = <<act[b].event>>,
               !.answer = Answer(NoneTok, checks[b][1], act[b].event),
               !.how = "match"]
       ELSE handle_unknown(called, sent)

\* Handler.on
On ==
    /\ Len(handler.events) < MaxPairs
    /\ \E c \in Conditions, e \in Events, tags \in SUBSET Tags :
          handler' = NoDispatch(on_access(handler, Pair(c, e, tags)))
    /\ UNCHANGED <<pvars, ovars>>

\* Handler.on_any
OnAny ==
    /\ Len(handler.events) < MaxPairs
    /\ \E e \in Events : handler' = NoDispatch(on_access(handler, Pair(TRUE_CONDITION, e, {})))
    /\ UNCHANGED <<pvars, ovars>>

\* Handler.off and Handler.off_any
Off ==
    /\ \E c \in Conditions \cup {TRUE_CONDITION}, e \in Events :
          handler' = NoDispatch(off(handler, c, e))
    /\ UNCHANGED <<pvars, ovars>>

\* the setter of Handler.tags: the active pairs stay as they are
SetTags ==
    /\ \E tags \in SUBSET Tags : handler' = NoDispatch([handler EXCEPT !.tags = tags])
    /\ UNCHANGED <<pvars, ovars>>

\* Handler.update_events, called by the owner after a change of the tags
UpdateEvents ==
    /\ handler' = NoDispatch(update_events(handler))
    /\ UNCHANGED <<pvars, ovars>>

\* an owner sets or clears Handler.unknown_event
SetUnknown ==
    /\ \E u \in {None, "unknown"} : handler' = NoDispatch([handler EXCEPT !.unknown_event = u])
    /\ UNCHANGED <<pvars, ovars>>

\* Handler.handle
Handle ==
    /\ \E m \in Messages, ctx \in Contexts : handler' = handle(handler, m, ctx)
    /\ UNCHANGED <<pvars, ovars>>

InitHandler == Built(Graph) /\ handler = NoHandler /\ event = NoEvent /\ access = NoAccess /\ changes = NoChanges /\ elements = NoElements

NextHandler ==
    \/ On
    \/ OnAny
    \/ Off
    \/ SetTags
    \/ UpdateEvents
    \/ SetUnknown
    \/ Handle

SpecHandler == InitHandler /\ [][NextHandler]_vars

(***************************************************************************)
(* The Event family: one Event whose value and hooks are user functions.   *)
(* A function is named by what it returns: None, False, a string of its    *)
(* own, or whatever it finds under context["result"] (None if absent).     *)
(***************************************************************************)
Functions == {"none", "false", "own", "echo"}

\* Access._call of the function f in the role who, with the context c
Called(who, f, c) ==
    [who |-> who,
     given |-> IF RESULT \in DOMAIN c THEN <<c[RESULT]>> ELSE <<>>,
     result |-> CASE f = "none" -> NoneTok
                  [] f = "false" -> Bool(FALSE)
                  [] f = "own" -> Str(who)
                  [] OTHER -> IF RESULT \in DOMAIN c THEN c[RESULT] ELSE NoneTok]

\* an Event.run that goes on to the action whatever the pre hook returned
run_through_pre(ev, c) ==
    LET act == Called("action", ev.value, c)
        c2 == Put(c, RESULT, act.result)
        pre == IF ev.pre_event # None THEN <<Called("pre", ev.pre_event, c)>> ELSE <<>>
        post == Called("post", ev.post_event, c2)
    IN IF ev.post_event # None
       THEN [ev EXCEPT !.calls = pre \o <<act, post>>, !.context = c2,
                       !.answer = IF post.result # NoneTok
                                  THEN <<post.result, ev.post_event>>
                                  ELSE <<act.result, ev.value>>]
       ELSE [ev EXCEPT !.calls = pre \o <<act>>, !.context = c,
                       !.answer = <<act.result, ev.value>>]

\* Event.run(message, context) on the Event ev: ev with the record of the run
run(ev, c) ==
    LET pre == Called("pre", ev.pre_event, c)
        act == Called("action", ev.value, c)
        c2 == Put(c, RESULT, act.result)
        post == Called("post", ev.post_event, c2)
        before == IF ev.pre_event # None THEN <<pre>> ELSE <<>>
    IN IF ev.pre_event # None /\ pre.result # NoneTok
       THEN [ev EXCEPT !.calls = <<pre>>, !.context = c,
                       !.answer = <<pre.result, ev.pre_event>>]
       ELSE IF ev.post_event # None
       THEN [ev EXCEPT !.calls = before \o <<act, post>>, !.context = c2,
                       !.answer = IF post.result # NoneTok
                                  THEN <<post.result, ev.post_event>>
                                  ELSE <<act.result, ev.value>>]
       ELSE [ev EXCEPT !.calls = before \o <<act>>, !.context = c,
                       !.answer = <<act.result, ev.value>>]

\* the record of the last run is dropped when a hook is set
NoRun(ev) == [ev EXCEPT !.calls = <<>>, !.answer = <<NoneTok, None>>, !.context = EmptyDict]

\* the setter of Event.pre: None removes the hook
SetPre ==
    /\ \E f \in Functions \cup {None} : event' = NoRun([event EXCEPT !.pre_event = f])
    /\ UNCHANGED <<pvars, handler, changes, access, elements>>

\* the setter of Event.post
SetPost ==
    /\ \E f \in Functions \cup {None} : event' = NoRun([event EXCEPT !.post_event = f])
    /\ UNCHANGED <<pvars, handler, changes, access, elements>>

\* Event.run with a context that holds no result, or one of an earlier run
Run ==
    /\ \E c \in {EmptyDict, One(RESULT, Str("old"))} : event' = run(event, c)
    /\ UNCHANGED <<pvars, handler, changes, access, elements>>

InitEvent ==
    /\ Built(Graph) /\ handler = NoHandler /\ access = NoAccess /\ changes = NoChanges /\ elements = NoElements
    /\ event \in {NewEvent(f) : f \in Functions}

NextEvent ==
    \/ SetPre
    \/ SetPost
    \/ Run

SpecEvent == InitEvent /\ [][NextEvent]_vars

(***************************************************************************)
(* The log family: a DictChangeGroup takes one operation after another on  *)
(* the keys k and j of two mappings and is undone at some point.           *)
(***************************************************************************)
\* largest number of operations added to the group
MaxEdits == 3

\* DictChangeGroup.add(change) of an operation that can be done: an add of
\* an absent key, a set, a delete of a present key.  added and top are
\* history: the operation as asked and the entry that was on top
Add ==
    /\ ~changes.undone /\ Len(changes.added) < MaxEdits
    /\ \E d \in {"d1", "d2"}, type \in {ADD, SET, DELETE}, key \in {"k", "j"}, value \in {1, 2} :
          LET op == Operation(d, type, key, IF type = DELETE THEN 0 ELSE value)
              present == key \in DOMAIN changes.D[d]
          IN /\ type = ADD => ~present
             /\ type = DELETE => present /\ value = 1
             /\ changes' = [changes EXCEPT
                                !.stack = GroupAdd(@, op, changes.D),
                                !.D = DictsAfterDo(op, changes.D),
                                !.added = Append(@, op),
                                !.top = IF changes.stack = <<>> THEN <<>>
                                        ELSE <<changes.stack[Len(changes.stack)]>>]
    /\ UNCHANGED <<pvars, handler, event, access, elements>>

\* DictChangeGroup.undo
Undo ==
    /\ ~changes.undone
    /\ changes' = [changes EXCEPT !.D = GroupUndo(changes.stack, changes.D),
                                   !.undone = TRUE]
    /\ UNCHANGED <<pvars, handler, event, access, elements>>

InitLog ==
    /\ Built(Graph) /\ handler = NoHandler /\ event = NoEvent /\ elements = NoElements
    /\ access = NoAccess
    /\ \E d1, d2 \in {EmptyDict, One("k", 0), Put(One("k", 0), "j", 1)} :
          changes = NewChanges(d1, d2)

NextLog == Add \/ Undo

SpecLog == InitLog /\ [][NextLog]_vars

(***************************************************************************)
(* The sequencing family: the ComplexNotion A has one relation, the        *)
(* NextRelation NA without a condition, whose object is the Notion X.  A   *)
(* plain Process or a ParsingProcess is called with A, and again with A,   *)
(* with NA or with X.                                                      *)
(***************************************************************************)
InitSequence ==
    \E plain \in BOOLEAN :
        Created([Graph EXCEPT !.entry = "A", !.texts = {"", "ab"},
                              !.extras = {EmptyDict, One("x", 0)},
                              !.plain = plain, !.again = TRUE, !.cmds = MaxRunCmds,
                              !.rests = {<<Elem("A")>>, <<Elem("NA")>>, <<Elem("X")>>,
                                         <<Elem("A"), Elem("A")>>}])

NextSequence ==
    \/ Call
    \/ DoQuery
    \/ DoQueuePush
    \/ DoQueuePop

SpecSequence == InitSequence /\ [][NextSequence]_vars

(***************************************************************************)
(* The string condition family: a Condition made from a literal string,    *)
(* with and without ignore_case, checks one message after another.         *)
(***************************************************************************)
\* Condition.check_string of the Condition c on the message m.  message[0]
\* raises IndexError on an empty message and the slice TypeError on a head
\* that is no sequence: both are caught.  A list has a slice but no upper():
\* AttributeError is not caught.  A list never equals a string
Checked(c, m, answer, raised) == [c EXCEPT !.message = m, !.answer = answer, !.raised = raised]
condition_check_string(c, m) ==
    IF m = <<>> \/ m[1].t \notin {"str", "list"} THEN Checked(c, m, NO_CHECK, None)
    ELSE IF m[1].t = "list"
    THEN IF c.ignore_case THEN Checked(c, m, NO_CHECK, "AttributeError")
         ELSE Checked(c, m, NO_CHECK, None)
    ELSE IF (IF c.ignore_case THEN Upper(Take(m[1].v, c.value_len))
             ELSE Take(m[1].v, c.value_len)) = c.value
    THEN Checked(c, m, <<c.value_len, Str(c.value)>>, None)
    ELSE Checked(c, m, NO_CHECK, None)

\* heads of the messages checked
RECURSIVE Letters(_)
Letters(n) ==
    IF n = 0 THEN {""}
    ELSE Letters(n - 1) \cup {w \o c : w \in Letters(n - 1), c \in {"a", "A", "b"}}
Heads ==
    {Str(s) : s \in Letters(MaxText + 1) \cup {"category", "Category", "dog"}}
        \cup {NoneTok, Bool(TRUE), Dict(EmptyDict), List(<<"a">>), List(<<>>)}

\* Condition.check(message, context) of a string Condition
Check ==
    /\ \E m \in {<<>>} \cup {<<h>> : h \in Heads} \cup {<<h, Str("a")>> : h \in Heads} :
          access' = condition_check_string(access, m)
    /\ UNCHANGED <<pvars, handler, event, changes, elements>>

InitCondition ==
    /\ Built(Graph) /\ handler = NoHandler /\ event = NoEvent /\ elements = NoElements
    /\ changes = NoChanges
    /\ \E p \in Letters(MaxText) \cup {"cat"}, ic \in BOOLEAN : access = NewCondition(p, ic)

NextCondition == Check

SpecCondition == InitCondition /\ [][NextCondition]_vars

(***************************************************************************)
(* The linkage family: the subjects of three Relations are assigned again  *)
(* and again: None, the ComplexNotions a and b, and the plain Notion x.    *)
(***************************************************************************)
\* largest number of assignments in one behaviour
MaxLinks == 4

\* x in lst / lst.remove(x) / lst.append(x) of a Python list
InList(x, lst) == \E i \in 1..Len(lst) : lst[i] = x
ListRemove(lst, x) ==
    LET i == CHOOSE i \in 1..Len(lst) : lst[i] = x /\ \A j \in 1..(i - 1) : lst[j] # x
    IN SubSeq(lst, 1, i - 1) \o SubSeq(lst, i + 1, Len(lst))

\* what the last assignment was
AfterAssignment(el, op, of, value, raised) ==
    [el EXCEPT !.last = [op |-> op, of |-> of, value |-> value, raised |-> raised,
                         before |-> elements.root, had |-> elements.default]]

\* a default setter that takes any value
default_unchecked(el, c, value) == [el EXCEPT !.default[c] = value]

\* the setter of SelectiveNotion.default of the notion c
set_default(el, c, value) ==
    IF el.default[c] = value \/ (value # None /\ el.subject[value] # c) THEN el
    ELSE [el EXCEPT !.default[c] = value]

\* a do_relation that never lets a relation go
do_relation_keep(el, c, sender, old, new) ==
    IF new = c /\ ~InList(sender, el.relations[c])
    THEN [el EXCEPT !.relations[c] = Append(@, sender)]
    ELSE el

\* ComplexNotion.do_relation of the notion c, told by the relation sender
\* that its subject changes from old to new
do_relation(el, c, sender, old, new) ==
    IF old = c /\ InList(sender, el.relations[c])
    THEN [el EXCEPT !.relations[c] = ListRemove(@, sender)]
    ELSE IF new = c /\ ~InList(sender, el.relations[c])
    THEN [el EXCEPT !.relations[c] = Append(@, sender)]
    ELSE el

\* SelectiveNotion.do_relation: ComplexNotion.do_relation, then a default
\* that is no longer among the relations is set to None
selective_do_relation(el, c, sender, old, new) ==
    LET Checked_(after) ==
            IF after.default[c] # None /\ ~InList(after.default[c], after.relations[c])
            THEN set_default(after, c, None)
            ELSE after
    IN Checked_(do_relation(el, c, sender, old, new))

\* Graph.do_element of the graph gr, told by the element that its owner
\* changes from old to new.  The root goes with self.root = None: the setter
\* does not raise (the root is the element) and the old root has no pair
\* for set_root
do_element(el, gr, element, old, new) ==
    LET collection == IF element \in Notions \cup Graphs THEN "notions" ELSE "grelations"
        removed == [el EXCEPT ![collection][gr] = ListRemove(@, element)]
    IN IF element \notin Notions \cup Graphs \cup Rels THEN el
       ELSE IF old = gr /\ InList(element, el[collection][gr])
       THEN IF element = removed.root[gr] THEN [removed EXCEPT !.root[gr] = None]
            ELSE removed
       ELSE IF new = gr /\ ~InList(element, el[collection][gr])
       THEN [el EXCEPT ![collection][gr] = Append(@, element)]
       ELSE el

\* the value told about the change: value(set_<name>, **context).  A
\* ComplexNotion has a pair for set_subject, a Graph one for set_owner; any
\* other handler has no match
Notified(el, target, name, sender, old, new) ==
    IF target \in SNotions /\ name = "subject"
    THEN selective_do_relation(el, target, sender, old, new)
    ELSE IF target \in CNotions /\ name = "subject"
    THEN do_relation(el, target, sender, old, new)
    ELSE IF target \in Graphs /\ name = "owner"
    THEN do_element(el, target, sender, old, new)
    ELSE el

\* Element.change_property(name, value) of the element e
change_property(el, e, name, value) ==
    LET old == el[name][e]
        told == IF old # None THEN Notified(el, old, name, e, old, value) ELSE el
        set == [told EXCEPT ![name][e] = value]
    IN IF old = value THEN el
       ELSE IF value # None THEN Notified(set, value, name, e, old, value)
       ELSE set

\* the setter of Relation.subject; the first assignment to a relation is
\* the one of Relation.__init__
SetSubject ==
    /\ Len(elements.log) < MaxLinks
    /\ \E r \in cfg.links.rels, v \in cfg.links.to :
          elements' = [AfterAssignment(change_property(elements, r, "subject", v),
                                       "subject", r, v, FALSE)
                          EXCEPT !.log = Append(@, <<r, v>>)]
    /\ UNCHANGED <<pvars, handler, event, changes, access>>

\* the setter of SelectiveNotion.default of b
SetDefault ==
    /\ Len(elements.log) < MaxLinks
    /\ \E v \in cfg.links.rels \cup {None} :
          elements' = [AfterAssignment(set_default(elements, "b", v), "default", "b", v, FALSE)
                          EXCEPT !.log = Append(@, <<"b", v>>)]
    /\ UNCHANGED <<pvars, handler, event, changes, access>>

(***************************************************************************)
(* The ownership family: the owners of a Notion, a ComplexNotion, a        *)
(* Relation and the Graph h, and the roots of the Graphs g and h, are      *)
(* assigned again and again.                                               *)
(***************************************************************************)
\* a root setter that only refuses the root it has
same_root(el, gr, value) == el.root[gr] = value

\* the test of the setter of Graph.root that raises ValueError
invalid_root(el, gr, value) ==
    \/ el.root[gr] = value
    \/ value # None /\ (el.owner[value] # gr \/ value \notin Notions)

\* the setter of Element.owner
SetOwner ==
    /\ \E e \in Owned, v \in Graphs \cup {None} :
          elements' = AfterAssignment(change_property(elements, e, "owner", v), "owner", e, v, FALSE)
    /\ UNCHANGED <<pvars, handler, event, changes, access>>

\* the setter of Graph.root
SetRoot ==
    /\ \E gr \in Graphs, v \in Owned \cup {None} :
          elements' = IF invalid_root(elements, gr, v)
                      THEN AfterAssignment(elements, "root", gr, v, TRUE)
                      ELSE AfterAssignment(change_property(elements, gr, "root", v), "root", gr, v, FALSE)
    /\ UNCHANGED <<pvars, handler, event, changes, access>>

InitOwnership == Built(Graph) /\ handler = NoHandler /\ event = NoEvent /\ access = NoAccess /\ changes = NoChanges /\ elements = NoElements

NextOwnership == SetOwner \/ SetRoot

SpecOwnership == InitOwnership /\ [][NextOwnership]_vars

InitLinkage == Built(Graph) /\ handler = NoHandler /\ event = NoEvent /\ access = NoAccess /\ changes = NoChanges /\ elements = NoElements

NextLinkage == SetSubject

SpecLinkage == InitLinkage /\ [][NextLinkage]_vars

\* The default family: the subjects of the Relations r1 and r2 are assigned
\* again and again (None, the ComplexNotion a, the SelectiveNotion b), and
\* so is the default of b (None, r1, r2)
InitDefault ==
    /\ Built([Graph EXCEPT !.links = [rels |-> {"r1", "r2"}, to |-> {"a", "b", None}]])
    /\ handler = NoHandler /\ event = NoEvent /\ access = NoAccess
    /\ changes = NoChanges /\ elements = NoElements

NextDefault == SetSubject \/ SetDefault

SpecDefault == InitDefault /\ [][NextDefault]_vars

(***************************************************************************)
(* Claims                                                                  *)
(***************************************************************************)
\* C1: rollback exactness, single group.  After a pop_context that closes a
\* group in which no other group was opened, the step does not fail and the
\* whole context is what it was just before the push_context of that group;
\* so every key the add / update / delete / proceed commands of the group
\* edited holds its pre-group value (created keys are absent, deleted keys
\* are back, overwritten keys hold the pre-group value).
C1_RollbackExact ==
    (last = "do_pop_context" /\ popped.inner = {})
        => (pc # "raised" /\ context = popped.context)

\* the group of C1 held an add, a delete and a set that overwrote twice
C1_Witness ==
    /\ last = "do_pop_context" /\ popped.inner = {} /\ pc # "raised"
    /\ context = popped.context
    /\ \E i, j, k \in 1..Len(popped.group) :
          /\ popped.group[i].type = ADD
          /\ popped.group[j].type = DELETE
          /\ popped.group[k].type = SET /\ popped.group[k].key = "x"
          /\ popped.group[k].value = 3 /\ popped.group[k].old = 0
\* C2: nested groups.  After a pop_context that closes a group inside which
\* groups were opened and every one of them was closed with forget_context,
\* the step does not fail on a missing key and the whole context is what it
\* was at the push_context of the popped group, the keys edited only inside
\* the forgotten groups included.
C2_NestedForget ==
    (last = "do_pop_context" /\ popped.inner = {"forget"})
        => (pc # "raised" /\ context = popped.context)
\* C3: alternation completeness.  The cases S starts are the cases tied at
\* the top rank, in relation order; whenever the pop_context of S has run
\* after a case ended in error, text, parsed_length and last_parsed are what
\* they were on entry to S; once a case returned in forward direction no
\* other case is started; S gives up with error only after all the tied
\* cases were started and ended in error.
C3_Alternation ==
    /\ trail.sel.started = SubSeq(trail.sel.cands, 1, Len(trail.sel.started))
    /\ (last = "do_pop_context" /\ current = "S")
          => /\ pc # "raised"
             /\ context[TEXT] = trail.sel.entry[TEXT]
             /\ context[PARSED_LENGTH] = trail.sel.entry[PARSED_LENGTH]
             /\ context[LAST_PARSED] = trail.sel.entry[LAST_PARSED]
    /\ trail.sel.out # "resumed"
    /\ trail.sel.out = "lost" => Len(trail.sel.started) = Len(trail.sel.cands)

\* C4: alternation candidate set.  On the first forward entry of S (more than
\* one relation) the cases are the results of exactly the non-default
\* relations whose rank on the text is the greatest rank >= 0, in relation
\* order, and only these are ever started; if no non-default relation has a
\* rank >= 0 the default relation is taken when there is one, and without a
\* default S answers error.
C4_CandidateSet ==
    LET Exactly(rels, ranks, top) ==
            LET want == SelectSeq([i \in 1..Len(rels) |-> i],
                                  LAMBDA i : top >= 0 /\ ranks[i] = top)
            IN IF want # <<>>
               THEN trail.sel.cands =
                        [j \in 1..Len(want) |-> next_handler(rels[want[j]], top)]
               ELSE IF default("S") # None
                    THEN trail.sel.cands = <<Elem(default("S"))>>
                    ELSE trail.sel.cands = <<>> /\ trail.sel.out = "error"
        Ranked(rels, ranks) == Exactly(rels, ranks, check_list(ranks))
        Among(rels) ==
            Ranked(rels, [i \in 1..Len(rels) |->
                             check_text(literal(rels[i]), trail.sel.entry[TEXT])])
    IN trail.sel.out # "" =>
          /\ Among(SelectSeq(relations("S"), LAMBDA r : r # default("S")))
          /\ trail.sel.started = SubSeq(trail.sel.cands, 1, Len(trail.sel.started))
\* C5: flexible loop bound.  For L0 with a range (m, u) or a wildcard
\* (* = 0..inf, ? = 0..1, + = 1..inf; an open side of a range is written 0):
\* when iteration i of the object ended in error, the loop is left in forward
\* direction if i > m and in error direction if i <= m, without a failure of
\* the step; and the object is never sent more than u times.
C5_FlexibleBound ==
    LET c == cfg.loop
        m == IF c.k = "range" THEN c.lo ELSE IF c.w = "+" THEN 1 ELSE 0
        open == IF c.k = "range" THEN c.hi = 0 ELSE c.w # "?"
        u == IF c.k = "range" THEN c.hi ELSE 1
    IN (cfg.entry = "L0" /\ c.k \in {"range", "wild"}) =>
          /\ trail.loop.out = "absorbed" => trail.loop.i > m
          /\ trail.loop.out = "failed" => trail.loop.i <= m
          /\ (last = "do_clear_state" /\ current = "L0" /\ trail.loop.out = "absorbed")
                => (query = NEXT /\ pc # "raised")
          /\ (last = "do_clear_state" /\ current = "L0" /\ trail.loop.out = "failed")
                => (query = ERROR /\ pc # "raised")
          /\ ~open => trail.loop.visits <= u

\* a loop 2.. (or 2..3) whose third iteration failed was left forward, and a
\* loop with lower bound 2 whose second iteration failed was left in error
C5_Witness ==
    /\ cfg.entry = "L0" /\ cfg.loop.k = "range" /\ cfg.loop.lo = 2
    /\ last = "do_clear_state" /\ current = "L0"
    /\ trail.loop.out = "absorbed" /\ trail.loop.i = 3 /\ query = NEXT

C5_WitnessError ==
    /\ cfg.entry = "L0" /\ cfg.loop.k = "range" /\ cfg.loop.lo = 2
    /\ last = "do_clear_state" /\ current = "L0"
    /\ trail.loop.out = "failed" /\ trail.loop.i = 2 /\ query = ERROR

\* C6: loop rollback state.  When the flexible loop L0 has absorbed a failing
\* iteration and its pop_context has run, text, parsed_length and
\* last_parsed are what they were at the end of the last successful
\* iteration (when L0 was last asked in forward direction), whatever the
\* object is made of.
C6_LoopRollback ==
    (cfg.entry = "L0" /\ last = "do_pop_context" /\ current = "L0"
     /\ trail.loop.out = "absorbed")
        => /\ pc # "raised"
           /\ context[TEXT] = trail.loop.good[TEXT]
           /\ context[PARSED_LENGTH] = trail.loop.good[PARSED_LENGTH]
           /\ context[LAST_PARSED] = trail.loop.good[LAST_PARSED]

\* C7: exact loop bound.  For L0 with the count n >= 1: when the loop ends
\* after forward visits only, the object was sent exactly n times, and once
\* its clear_state has run L0 has no state and the direction is forward; an
\* error of a visit is never absorbed, and after the clear_state of the loop
\* the direction is still error.
C7_ExactBound ==
    (cfg.entry = "L0" /\ cfg.loop.k = "num") =>
        /\ trail.loop.visits <= cfg.loop.n
        /\ trail.loop.out = "done" => trail.loop.visits = cfg.loop.n
        /\ (last = "do_clear_state" /\ current = "L0" /\ trail.loop.out = "done")
              => ("L0" \notin DOMAIN states /\ query = NEXT)
        /\ trail.loop.out # "absorbed"
        /\ (last = "do_clear_state" /\ current = "L0" /\ trail.loop.out = "failed")
              => ("L0" \notin DOMAIN states /\ query = ERROR)

\* a loop of two visits ended forward with its state cleared
C7_Witness ==
    /\ cfg.entry = "L0" /\ cfg.loop.k = "num" /\ cfg.loop.n = 2
    /\ last = "do_clear_state" /\ current = "L0"
    /\ trail.loop.out = "done" /\ trail.loop.visits = 2
    /\ "L0" \notin DOMAIN states /\ query = NEXT

\* the second visit of a loop of two ended in error, which left the loop
C7_WitnessError ==
    /\ cfg.entry = "L0" /\ cfg.loop.k = "num" /\ cfg.loop.n = 2
    /\ last = "do_clear_state" /\ current = "L0"
    /\ trail.loop.out = "failed" /\ trail.loop.i = 2 /\ query = ERROR

\* C8: rank determinism.  After a dispatch of the bare Handler in which some
\* active pair reached a rank >= 0, exactly one event was run: that of the
\* active pair w whose rank no other active pair exceeds and no earlier
\* active pair equals; the rank returned and the event written to the
\* context are those of w.
C8_RankDeterminism ==
    handler.how # "" =>
        LET act == handler.active_events
            rank(i) == check(act[i].cond, handler.message)[1]
        IN (\E i \in 1..Len(act) : rank(i) >= 0) =>
              \E w \in 1..Len(act) :
                  /\ \A j \in 1..Len(act) : rank(j) <= rank(w)
                  /\ \A j \in 1..(w - 1) : rank(j) < rank(w)
                  /\ handler.ran = <<act[w].event>>
                  /\ handler.context[EVENT] = act[w].event
                  /\ handler.answer.rank = rank(w)

\* three active pairs, a lower-ranked one first and then two tied on the
\* highest rank with different events: the event of the earlier tied pair ran
C8_Witness ==
    /\ handler.how = "match"
    /\ LET act == handler.active_events
           rank(i) == check(act[i].cond, handler.message)[1]
       IN /\ Len(act) = 3
          /\ rank(1) >= 0 /\ rank(1) < rank(2) /\ rank(2) = rank(3)
          /\ act[2].event # act[3].event
          /\ handler.ran = <<act[2].event>>

\* C9: tag filtering.  After every dispatch step of the Process the active
\* pairs are exactly the registered pairs whose tags all belong to the tags
\* computed for that step, in registration order, and the event the step ran
\* belongs to such a pair.
C9_TagFiltering ==
    handler.seen # {} =>
        /\ handler.active_events
              = SelectSeq(ProcessEvents, LAMBDA p : p.tags \subseteq handler.seen)
        /\ last \notin {"", "on_handle"} =>
              \E i \in 1..Len(ProcessEvents) :
                  /\ ProcessEvents[i].event = last
                  /\ ProcessEvents[i].tags \subseteq handler.seen

\* the head of the message is pop_context while no group is open: the pair of
\* pop_context carries the tag tracking, was left out, and nothing was run
C9_Witness ==
    /\ pc = "done" /\ last = "" /\ handler.seen # {}
    /\ "tracking" \notin handler.seen
    /\ message # <<>> /\ IsStr(message[1], POP_CONTEXT)

\* C10: Handler no-match.  After a dispatch of the bare Handler in which no
\* active pair reached a rank >= 0: the unknown_event was run if one is set,
\* otherwise nothing was run and the answer is NO_HANDLE (False, -1, None);
\* the keys rank, condition and event of the context are as the caller
\* passed them.  After a dispatch with a match, the context the event was
\* given holds the winning rank, the matched value and the event.
C10_NoMatch ==
    handler.how # "" =>
        LET act == handler.active_events
            rank(i) == check(act[i].cond, handler.message)[1]
            kept(k) ==
                /\ k \in DOMAIN handler.context <=> k \in DOMAIN handler.before
                /\ k \in DOMAIN handler.before => handler.context[k] = handler.before[k]
        IN IF \A i \in 1..Len(act) : rank(i) < 0
           THEN /\ kept(RANK) /\ kept(CONDITION) /\ kept(EVENT)
                /\ IF handler.unknown_event # None
                   THEN handler.ran = <<handler.unknown_event>>
                   ELSE handler.ran = <<>> /\ handler.answer = NO_HANDLE
           ELSE \E w \in 1..Len(act) :
                   /\ \A j \in 1..Len(act) : rank(j) <= rank(w)
                   /\ \A j \in 1..(w - 1) : rank(j) < rank(w)
                   /\ handler.ran = <<act[w].event>>
                   /\ handler.context[RANK] = rank(w)
                   /\ handler.context[CONDITION] = check(act[w].cond, handler.message)[2]
                   /\ handler.context[EVENT] = act[w].event

\* no active pair matched, the unknown_event ran, and the keys of an earlier
\* dispatch in the caller's context are untouched
C10_Witness ==
    /\ handler.how = "unknown" /\ handler.ran = <<handler.unknown_event>>
    /\ handler.active_events # <<>>
    /\ handler.before = Stale /\ handler.context = Stale

\* no active pair matched and no unknown_event is set: the answer is NO_HANDLE
C10_WitnessSentinel ==
    /\ handler.how = "none" /\ handler.unknown_event = None
    /\ handler.active_events # <<>>
    /\ handler.answer = NO_HANDLE /\ RANK \notin DOMAIN handler.context

\* C11: independent run.  Right after a top-level call whose message starts
\* with `new`, whatever the Process held before (frames, context keys, open
\* groups, private states): the queue is exactly one frame whose current
\* element is null and whose message is the call's message without the
\* token, no group is open, no private state is stored, and the context
\* holds the call's entries and no key of the context before the call (a
\* ParsingProcess also holds its two counters, reset).
C11_IndependentRun ==
    last = "on_handle" =>
        LET own == IF cfg.plain THEN {} ELSE {PARSED_LENGTH, LAST_PARSED}
            entries == trail.call.entries
        IN /\ queue = <<Frame(None, trail.call.rest)>>
           /\ context_stack = <<>>
           /\ states = EmptyDict
           /\ DOMAIN context \ own = DOMAIN entries \ own
           /\ \A k \in DOMAIN entries \ own : context[k] = entries[k]

\* the call of C11 met two frames, an open group, a private state and a
\* context key it does not pass, and none of them is left
C11_Witness ==
    /\ last = "on_handle" /\ Len(queue) = 1 /\ context_stack = <<>> /\ states = EmptyDict
    /\ trail.call.frames /\ trail.call.groups /\ trail.call.kept
    /\ "x" \in trail.call.old /\ "x" \notin DOMAIN context

\* C12: terminal tokens.  A dispatch step that finds stop, ok or False at
\* the head of the current message removes that token only, ends the loop and
\* makes the token the result of the run: the rest of the message and the
\* frames beneath stay as they were.  A step whose event returns None or
\* True puts nothing back into the message (after do_finish, do_query,
\* do_clear_message and do_push_context the queue is the one before with
\* the head removed), and the loop goes on exactly when a message or a
\* second frame is left.
C12_TerminalTokens ==
    [][(pc = "run" /\ message # <<>>) =>
          LET h == message[1]
              quiet == result' \in {NoneTok, Bool(TRUE)} /\ pc' # "raised"
          IN /\ h \in {Str(STOP), Str(OK), Bool(FALSE)} =>
                   (pc' = "done" /\ result' = h /\ queue' = Popped /\ last' = "do_finish")
             /\ (quiet /\ last' \in {"do_finish", "do_query", "do_clear_message",
                                      "do_push_context"}) =>
                   queue' = Popped
             /\ quiet =>
                   (pc' = "run" <=> (queue'[Len(queue')].message # <<>> \/ Len(queue') > 1))
      ]_vars

\* a run of C12 that ok ended in the upper of two frames, with a token left
\* behind it and another one in the frame beneath
C12_Witness ==
    /\ pc = "done" /\ result = Str(OK) /\ last = "do_finish"
    /\ Len(queue) = 2 /\ message # <<>> /\ queue[1].message # <<>>

\* C13: frame balance.  Whenever a run that a call with `new` started has
\* ended with the result ok or stop, the queue holds one frame, as it did
\* when the run started: every frame pushed since has been popped.
C13_FrameBalance ==
    (pc = "done" /\ result \in {Str(OK), Str(STOP)}) => Len(queue) = 1

\* C14 as stated: descent and return.  A step that finds an element at the
\* head of the current message removes it and pushes the frame (head,
\* [query]) on top of the frame that keeps the rest of the message; a step
\* that finds the message empty and more than one frame pops the top frame
\* and leaves the frames beneath as they were.
C14_DescentReturn ==
    [][pc = "run" =>
          /\ (message # <<>> /\ message[1].t = "elem") =>
                (last' = "do_queue_push"
                 /\ queue' = Append(Popped, Frame(message[1].v, <<Str(QUERY)>>)))
          /\ (message = <<>> /\ Len(queue) > 1) =>
                (last' = "do_queue_pop" /\ queue' = SubSeq(queue, 1, Len(queue) - 1))
      ]_vars

\* C14 amended: the frame (head, [query]) is pushed on top of the current
\* frame only when tokens remain behind the head; when the head was the last
\* token the current frame itself becomes (head, [query]), the depth stays
\* and the current element it held is dropped.  The return is as stated.
C14_DescentInPlace ==
    [][pc = "run" =>
          /\ (message # <<>> /\ message[1].t = "elem") =>
                /\ last' = "do_queue_push"
                /\ Tail(message) # <<>> =>
                      queue' = Append(Popped, Frame(message[1].v, <<Str(QUERY)>>))
                /\ Tail(message) = <<>> =>
                      queue' = [queue EXCEPT ![Len(queue)] =
                                   Frame(message[1].v, <<Str(QUERY)>>)]
          /\ (message = <<>> /\ Len(queue) > 1) =>
                (last' = "do_queue_pop" /\ queue' = SubSeq(queue, 1, Len(queue) - 1))
      ]_vars

\* the element was the last token of the only frame: the frame was reused
C14_Witness ==
    /\ last = "do_queue_push" /\ Len(queue) = 1
    /\ queue[1] = Frame("D", <<Str(QUERY)>>)

\* C15: unmatched input.  When a dispatch step of a plain Process finds no
\* handler for the head of the message (an unknown string, a mapping without
\* a known command key, query without a current element), the run ends
\* without an exception and its result is ok.
C15_UnmatchedIsOk ==
    (cfg.plain /\ last = "" /\ pc \in {"done", "raised"})
        => (pc = "done" /\ result = Str(OK))

\* C16: run result of ParsingProcess.  When the loop has ended with the raw
\* result r, the call returns False if r is not stop and the direction is
\* not next or text is left, and r itself otherwise (so stop is returned as
\* stop whatever is left of the text); the second component of what it
\* returns is parsed_length.
C16_RunResult ==
    (~cfg.plain /\ pc = "done") =>
        /\ parsing_handle.length =
               (IF PARSED_LENGTH \in DOMAIN context THEN context[PARSED_LENGTH] ELSE 0)
        /\ IF result # Str(STOP) /\ (query # NEXT \/ context[TEXT] # "")
           THEN parsing_handle.value = Bool(FALSE)
           ELSE parsing_handle.value = result

\* a run of C16 that ended with the raw result ok in forward direction after
\* one of two characters was consumed: it returns (False, 1)
C16_Witness ==
    /\ ~cfg.plain /\ pc = "done" /\ result = Str(OK) /\ query = NEXT
    /\ context[TEXT] = "b" /\ parsing_handle = [value |-> Bool(FALSE), length |-> 1]

C18_DirectionTokens ==
    [][(pc = "run" /\ ~cfg.plain /\ message # <<>>
        /\ message[1] \in {Str(NEXT), Str(ERROR), Str(BREAK), Str(CONTINUE)}) =>
          /\ last' = "do_turn" /\ query' = message[1].v
          /\ queue' = [queue EXCEPT ![Len(queue)].message = <<>>]
      ]_vars

\* C18 amended: the step makes the token the direction; error, break and
\* continue empty the message of the current frame, next only leaves the
\* message: the tokens behind it stay and are processed in forward direction.
C18_TurnKeepsForward ==
    [][(pc = "run" /\ ~cfg.plain /\ message # <<>>
        /\ message[1] \in {Str(NEXT), Str(ERROR), Str(BREAK), Str(CONTINUE)}) =>
          /\ last' = "do_turn" /\ query' = message[1].v
          /\ queue' = IF message[1] = Str(NEXT) THEN Popped
                      ELSE [queue EXCEPT ![Len(queue)].message = <<>>]
      ]_vars

\* a turn to next that left the element behind it in the message
C18_Witness ==
    /\ ~cfg.plain /\ last = "do_turn" /\ query = NEXT /\ pc = "run"
    /\ message # <<>> /\ message[1].t = "elem"

\* C19: proceed.  A step that finds {proceed: n} with 0 <= n <= len(text) at
\* the head removes the first n characters from text, adds n to
\* parsed_length and makes the removed characters last_parsed; when a group
\* is open the three edits are its three latest operations, in this order;
\* and the pop_context that closes a group puts text, parsed_length and
\* last_parsed back to what they were when the group was opened.
C19_Proceed ==
    [][pc = "run" =>
          /\ (message # <<>> /\ message[1].t = "dict" /\ PROCEED \in DOMAIN message[1].v
              /\ message[1].v[PROCEED] \in 0..Len(context[TEXT])) =>
                LET n == message[1].v[PROCEED]
                    top == context_stack'[Len(context_stack')]
                    m == Len(top)
                IN /\ last' = "do_proceed" /\ pc' # "raised"
                   /\ context'[TEXT] = SubSeq(context[TEXT], n + 1, Len(context[TEXT]))
                   /\ context'[PARSED_LENGTH] = context[PARSED_LENGTH] + n
                   /\ context'[LAST_PARSED] = SubSeq(context[TEXT], 1, n)
                   /\ context_stack # <<>> =>
                         /\ Len(context_stack') = Len(context_stack)
                         /\ m = Len(context_stack[Len(context_stack)]) + 3
                         /\ <<top[m - 2].key, top[m - 1].key, top[m].key>> =
                               <<TEXT, PARSED_LENGTH, LAST_PARSED>>
          /\ last' = "do_pop_context" =>
                \A k \in {TEXT, PARSED_LENGTH, LAST_PARSED} :
                    context'[k] = popped'.context[k]
      ]_vars

\* a pop_context has undone a group that held the edits of a proceed
C19_Witness ==
    /\ last = "do_pop_context" /\ pc = "run"
    /\ \E i \in 1..Len(popped.group) :
          /\ popped.group[i].key = TEXT /\ popped.group[i].value = ""
    /\ context[TEXT] = "ab" /\ context[PARSED_LENGTH] = 0 /\ context[LAST_PARSED] = ""

\* C20 as stated: ParsingRelation.  Queried in forward direction with a
\* condition that matches the text with rank r, PO answers {proceed: r}
\* followed by its object, and the object alone when r = 0 or check_only is
\* set; on every other query a PO that is not optional answers error and an
\* optional one answers nothing (do_query then returns True).
C20_ParsingRelation ==
    [][(pc = "run" /\ message # <<>> /\ message[1] = Str(QUERY) /\ current = "PO") =>
          LET r == Len(cfg.po)
              matches == query = NEXT /\ Len(context[TEXT]) >= r
                         /\ SubSeq(context[TEXT], 1, r) = cfg.po
          IN /\ last' = "do_query"
             /\ result' = IF matches
                           THEN IF r > 0 /\ ~cfg.pocheck
                                THEN List(<<Dict(One(PROCEED, r)), Elem("X")>>)
                                ELSE Elem("X")
                           ELSE IF ~cfg.poopt THEN Str(ERROR) ELSE Bool(TRUE)
      ]_vars

\* C20 amended: as stated, but a PO that is not optional answers error only
\* on a forward query whose condition does not match; queried in another
\* direction it answers nothing, like an optional one.
C20_ErrorOnForward ==
    [][(pc = "run" /\ message # <<>> /\ message[1] = Str(QUERY) /\ current = "PO") =>
          LET r == Len(cfg.po)
              matches == query = NEXT /\ Len(context[TEXT]) >= r
                         /\ SubSeq(context[TEXT], 1, r) = cfg.po
          IN /\ last' = "do_query"
             /\ result' = IF matches
                           THEN IF r > 0 /\ ~cfg.pocheck
                                THEN List(<<Dict(One(PROCEED, r)), Elem("X")>>)
                                ELSE Elem("X")
                           ELSE IF ~cfg.poopt /\ query = NEXT THEN Str(ERROR)
                           ELSE Bool(TRUE)
      ]_vars

\* PO with check_only matched two characters and answered its object alone
C20_Witness ==
    /\ last = "do_query" /\ current = "PO" /\ cfg.pocheck /\ cfg.po = "ab"
    /\ query = NEXT /\ result = Elem("X") /\ SubSeq(context[TEXT], 1, 2) = "ab"

\* C21: state rollback.  After a pop_context that closes a group in which no
\* other group was closed, the state store (which elements have a slot, and
\* each slot's value) and the context are what they were at the push_context
\* that opened the group.
C21_StateRollback ==
    (last = "do_pop_context" /\ popped.inner = {})
        => (states = popped.states /\ context = popped.context)

\* C22: state visibility.  No dispatch step leaves the key "state" in the
\* context, and the mapping an element finds under that key while it is
\* queried is its own slot of the state store as it was when the query
\* began, or an empty mapping if it has no slot: never the slot of another
\* element.
C22_StateVisibility ==
    [][/\ STATE_KEY \notin DOMAIN context'
       /\ last' = "do_query" =>
             /\ trail'.seen.e = current
             /\ trail'.seen.state = IF current \in DOMAIN states THEN states[current]
                                    ELSE EmptyDict
      ]_vars

\* a query of C22 in which the element found its own slot while another
\* element had a slot too, and a later query of an element without a slot
C22_Witness ==
    /\ last = "do_query" /\ STATE_KEY \notin DOMAIN context
    /\ Cardinality(DOMAIN states) >= 2
    /\ trail.seen.e \in DOMAIN states /\ trail.seen.state # EmptyDict

C22_WitnessNoSlot ==
    /\ last = "do_query" /\ STATE_KEY \notin DOMAIN context
    /\ DOMAIN states # {} /\ trail.seen.e \notin DOMAIN states
    /\ trail.seen.state = EmptyDict

\* C23: context commands.  A step that handles add_context gives each key of
\* the command that the context lacks the command's value and leaves every
\* key the context holds as it is; update_context gives every key of the
\* command the command's value; delete_context removes the key or the keys
\* it names that the context holds and nothing else.  Each of the three
\* takes its own key out of the mapping at the head of the message and
\* leaves the rest of the mapping there; a mapping that holds one of the
\* commands is handled by one of them, and an emptied mapping is dropped
\* from the message with the context untouched.
C23_ContextCommands ==
    [][(pc = "run" /\ message # <<>> /\ message[1].t = "dict") =>
          LET h == message[1].v
              add == h[ADD_CONTEXT]
              upd == h[UPDATE_CONTEXT]
              del == IF h[DELETE_CONTEXT].t = "list"
                     THEN {h[DELETE_CONTEXT].v[i] : i \in 1..Len(h[DELETE_CONTEXT].v)}
                     ELSE {h[DELETE_CONTEXT].v}
              Without(key) == message' = <<Dict([k \in DOMAIN h \ {key} |-> h[k]])>> \o Tail(message)
          IN /\ last' = "do_add_context" =>
                   /\ context' = [k \in DOMAIN context \cup DOMAIN add |->
                                     IF k \in DOMAIN context THEN context[k] ELSE add[k]]
                   /\ Without(ADD_CONTEXT)
             /\ last' = "do_update_context" =>
                   /\ context' = [k \in DOMAIN context \cup DOMAIN upd |->
                                     IF k \in DOMAIN upd THEN upd[k] ELSE context[k]]
                   /\ Without(UPDATE_CONTEXT)
             /\ last' = "do_delete_context" =>
                   /\ context' = [k \in DOMAIN context \ del |-> context[k]]
                   /\ Without(DELETE_CONTEXT)
             /\ DOMAIN h \cap {ADD_CONTEXT, UPDATE_CONTEXT, DELETE_CONTEXT} # {} =>
                   /\ last' \in {"do_add_context", "do_update_context", "do_delete_context"}
                   /\ pc' = "run"
             /\ DOMAIN h = {} =>
                   /\ last' = "do_clear_message"
                   /\ message' = Tail(message) /\ context' = context
      ]_vars

\* an add_context of C23 for x and y has kept the x the context held, set
\* the y it lacked, and left the emptied mapping at the head of the message
C23_Witness ==
    /\ last = "do_add_context" /\ message # <<>> /\ message[1] = Dict(EmptyDict)
    /\ {"x", "y"} \subseteq DOMAIN context
    /\ context["x"] = 0 /\ context["y"] = 5

\* a delete_context of C23 for x and y met a context that held neither
C23_WitnessAbsent ==
    /\ last = "do_delete_context" /\ message # <<>> /\ message[1] = Dict(EmptyDict)
    /\ DOMAIN context \cap {"x", "y"} = {} /\ result = NoneTok
    /\ trail.call.entries = One(TEXT, "ab")

\* C24: tracking gate.  A step that finds pop_context or forget_context at
\* the head of the message closes the top group if a group is open; if none
\* is open no event runs: the run ends with the result False, and the
\* context, the state store, the (empty) group stack and the message are
\* left as they were.  A step that finds clear_state at the head runs
\* do_clear_state if the frame has a current element and the state store
\* is not empty, and otherwise ends the run the same way.
C24_TrackingGate ==
    [][(pc = "run" /\ message # <<>> /\ message[1].t = "str") =>
          LET h == message[1].v
              unhandled == /\ last' = "" /\ pc' = "done" /\ result' = Bool(FALSE)
                           /\ context' = context /\ states' = states
                           /\ context_stack' = context_stack /\ queue' = queue
          IN /\ h \in {POP_CONTEXT, FORGET_CONTEXT} =>
                   IF context_stack = <<>> THEN unhandled
                   ELSE /\ last' = (IF h = POP_CONTEXT THEN "do_pop_context"
                                    ELSE "do_forget_context")
                        /\ pc' # "raised"
                        /\ context_stack' = SubSeq(context_stack, 1, Len(context_stack) - 1)
             /\ h = CLEAR_STATE =>
                   IF current # None /\ DOMAIN states # {}
                   THEN last' = "do_clear_state" /\ pc' # "raised"
                   ELSE unhandled
      ]_vars

\* a run of C24 that pop_context ended: the token met no open group in a
\* frame that has a current element, after a group had been opened and closed
C24_Witness ==
    /\ pc = "done" /\ last = "" /\ result = Bool(FALSE)
    /\ message # <<>> /\ message[1] = Str(POP_CONTEXT)
    /\ context_stack = <<>> /\ current = "D" /\ fed >= 3

\* a run of C24 that clear_state ended in the frame without a current
\* element, the state store holding a slot
C24_WitnessNoCurrent ==
    /\ pc = "done" /\ last = "" /\ result = Bool(FALSE)
    /\ message # <<>> /\ message[1] = Str(CLEAR_STATE)
    /\ current = None /\ DOMAIN states # {}

\* C25: event hooks.  In every run of an Event the pre hook, if there is
\* one, is called first; if it returns a non-null result that result is
\* returned and nothing else is called.  Otherwise the action is called
\* next; with a post hook, the post hook is called last, finds the action's
\* result under the context key result, and the run returns the post hook's
\* result if it is non-null and the action's result otherwise; without a
\* post hook the run returns the action's result.
C25_EventHooks ==
    event.calls # <<>> =>
        LET calls == event.calls
            n == Len(calls)
            hasPre == event.pre_event # None
            hasPost == event.post_event # None
            stopped == hasPre /\ calls[1].result # NoneTok
            a == IF hasPre THEN 2 ELSE 1
        IN /\ hasPre => calls[1].who = "pre"
           /\ stopped => (n = 1 /\ event.answer[1] = calls[1].result)
           /\ ~stopped =>
                 /\ n = a + (IF hasPost THEN 1 ELSE 0)
                 /\ calls[a].who = "action"
                 /\ hasPost =>
                       /\ calls[n].who = "post"
                       /\ calls[n].given = <<calls[a].result>>
                       /\ event.answer[1] = IF calls[n].result # NoneTok
                                            THEN calls[n].result ELSE calls[a].result
                 /\ ~hasPost => event.answer[1] = calls[a].result

\* a run of C25 in which the pre hook returned None and the post hook
\* returned the action's result it found in the context, over an older one
C25_Witness ==
    /\ Len(event.calls) = 3 /\ event.calls[1].result = NoneTok
    /\ event.calls[2].given = <<Str("old")>>
    /\ event.calls[3].given = <<Str("action")>>
    /\ event.answer = <<Str("action"), "echo">>

\* a run of C25 that the pre hook ended with False
C25_WitnessPre ==
    /\ event.post_event # None /\ Len(event.calls) = 1
    /\ event.answer = <<Bool(FALSE), "false">>

\* C26: break and continue.  When the looping LoopRelation L0 (in iteration
\* i, upper bound u; a count n has u = n, ? has u = 1) is queried in
\* direction break, its reply is: next, then forget_context if its bounds
\* are flexible, then clear_state; so the object is not sent again, and when
\* the run has ended the direction is next, L0 has no state slot, no group
\* is open and the context is what it was when the break arrived.  Queried
\* in direction continue its reply is next followed by what a forward query
\* in iteration i gives: the start of iteration i + 1 if i < u, the end of
\* the loop otherwise.
C26_BreakContinue ==
    [][/\ (pc = "run" /\ last' = "do_query" /\ current = "L0"
           /\ "L0" \in DOMAIN states /\ query \in {BREAK, CONTINUE}) =>
             LET i == states["L0"]["i"]
                 c == cfg.loop
                 flexible == c.k # "num"
                 u == IF c.k = "num" THEN c.n ELSE IF c.k = "range" THEN c.hi ELSE 1
                 closing == IF flexible THEN <<Str(FORGET_CONTEXT)>> ELSE <<>>
                 opening == IF flexible THEN <<Str(PUSH_CONTEXT)>> ELSE <<>>
                 ending == <<Str(NEXT)>> \o closing \o <<Str(CLEAR_STATE)>>
             IN /\ query = BREAK => message' = ending
                /\ query = CONTINUE =>
                      message' = IF i < u
                                 THEN <<Str(NEXT)>> \o closing
                                      \o <<Dict(One(SET_STATE, One("i", i + 1)))>>
                                      \o opening \o <<Elem(object("L0")), Elem("L0")>>
                                 ELSE ending
       /\ trail.loop.out = "broken" => trail'.loop.visits = trail.loop.visits
       /\ (trail'.loop.out = "broken" /\ pc' = "done") =>
             /\ query' = NEXT /\ "L0" \notin DOMAIN states' /\ context_stack' = <<>>
             /\ context' = trail'.loop.good /\ last' = "do_clear_state"
      ]_vars

\* a run of C26 that a break ended in the second iteration of a flexible
\* loop, after the iteration had consumed a character
C26_Witness ==
    /\ cfg.lobj = "D" /\ cfg.loop.k = "range" /\ pc = "done"
    /\ trail.loop.out = "broken" /\ trail.loop.visits = 2
    /\ query = NEXT /\ states = EmptyDict /\ context_stack = <<>>
    /\ context[TEXT] = "b"

\* a continue of C26 has started the next iteration of an exact loop
C26_WitnessContinue ==
    /\ cfg.lobj = "D" /\ cfg.loop.k = "num" /\ last = "do_query" /\ current = "L0"
    /\ query = CONTINUE /\ Len(message) = 4 /\ message[1] = Str(NEXT)

\* a continue of C26 at the upper bound has ended a flexible loop
C26_WitnessEnd ==
    /\ cfg.lobj = "D" /\ cfg.loop.k = "range" /\ last = "do_query" /\ current = "L0"
    /\ query = CONTINUE
    /\ message = <<Str(NEXT), Str(FORGET_CONTEXT), Str(CLEAR_STATE)>>

\* C27: after any sequence of assignments to the subjects of relations
\* (the one of the construction, another ComplexNotion, the same one, None, a
\* plain Notion), every relation has the subject assigned last, a relation
\* is in the relations of a ComplexNotion if and only if that notion is its
\* subject, it is there once, and the relations of a notion stand in the
\* order in which they were attached to it.
C27_RelationLinkage ==
    LET log == elements.log
        Assigned(r) == {i \in 1..Len(log) : log[i][1] = r}
        Now(r) == IF Assigned(r) = {} THEN None
                  ELSE log[CHOOSE i \in Assigned(r) : \A k \in Assigned(r) : k <= i][2]
        Holds(r, j) == \A k \in Assigned(r) : k >= j => log[k][2] = Now(r)
        Since(r) == CHOOSE j \in Assigned(r) :
                        Holds(r, j) /\ \A k \in Assigned(r) : Holds(r, k) => j <= k
    IN /\ \A r \in Rels : elements.subject[r] = Now(r)
       /\ \A c \in CNotions :
            LET lst == elements.relations[c]
            IN /\ \A r \in Rels : InList(r, lst) <=> elements.subject[r] = c
               /\ \A i, j \in 1..Len(lst) : lst[i] = lst[j] => i = j
               /\ \A i, j \in 1..Len(lst) : i < j => Since(lst[i]) < Since(lst[j])

\* r1 was attached to a before r2, moved to b and came back to a behind r2
C27_Witness ==
    /\ elements.log = << <<"r1", "a">>, <<"r2", "a">>, <<"r1", "b">>, <<"r1", "a">> >>
    /\ elements.relations["a"] = <<"r2", "r1">>
    /\ elements.relations["b"] = <<>>

\* a relation detached with None, another with a plain Notion, a third
\* assigned the subject it has
C27_WitnessDetach ==
    /\ \E i \in 1..Len(elements.log) : elements.log[i] = <<"r1", None>> /\ i > 1
    /\ elements.subject["r1"] = None
    /\ elements.subject["r2"] = "x"
    /\ elements.relations["a"] = <<"r3">>
    /\ Len(elements.log) = 4

\* C28: an element is in the notions (a Notion, a Graph) or the relations
\* (a Relation) of a Graph if and only if its owner is that Graph, and it is
\* there once; the root of a Graph is None or a Notion the Graph owns; the
\* assignment of a root that the Graph does not own or that is not a Notion
\* raises and leaves the root as it was; taking the current root away from
\* the Graph makes the root None.
C28_GraphOwnership ==
    LET made == elements.last
    IN /\ \A gr \in Graphs, e \in Owned :
            /\ InList(e, elements.notions[gr]) <=> e \notin Rels /\ elements.owner[e] = gr
            /\ InList(e, elements.grelations[gr]) <=> e \in Rels /\ elements.owner[e] = gr
       /\ \A gr \in Graphs :
            /\ \A i, j \in 1..Len(elements.notions[gr]) :
                    elements.notions[gr][i] = elements.notions[gr][j] => i = j
            /\ Len(elements.grelations[gr]) <= 1
            /\ elements.root[gr] # None =>
                    elements.root[gr] \in Notions /\ elements.owner[elements.root[gr]] = gr
       /\ made.op = "root" /\ made.value # None
            /\ (elements.owner[made.value] # made.of \/ made.value \notin Notions)
            => made.raised /\ elements.root = made.before
       /\ made.op = "owner" =>
            \A gr \in Graphs :
                elements.root[gr] = IF made.before[gr] = made.of /\ made.value # gr
                                    THEN None ELSE made.before[gr]

\* the root of g was x and x went to h
C28_Witness ==
    /\ elements.last.op = "owner" /\ elements.last.of = "x" /\ elements.last.value = "h"
    /\ elements.last.before["g"] = "x"
    /\ elements.root["g"] = None
    /\ elements.notions["h"] = <<"x">>

\* a Relation that g owns was refused as its root, which stays y
C28_WitnessRefused ==
    /\ elements.last.op = "root" /\ elements.last.of = "g" /\ elements.last.value = "r1"
    /\ elements.last.raised
    /\ elements.owner["r1"] = "g"
    /\ elements.root["g"] = "y"

\* a Notion of another Graph was refused
C28_WitnessForeign ==
    /\ elements.last.op = "root" /\ elements.last.of = "g" /\ elements.last.value = "x"
    /\ elements.last.raised
    /\ elements.owner["x"] = "h"
    /\ elements.root["g"] = None

\* the Graph h, owned by g, was refused as the root of g
C28_WitnessGraph ==
    /\ elements.last.op = "root" /\ elements.last.of = "g" /\ elements.last.value = "h"
    /\ elements.last.raised
    /\ elements.owner["h"] = "g"
    /\ elements.notions["g"] = <<"y", "h">>

\* C29: a Condition made from the literal string p, checking a message whose
\* head is a string s, answers (len(p), p) if and only if s starts with p,
\* letters compared without regard to case when ignore_case is set; for an
\* empty message, a head that is no string or a string that does not start
\* with p it answers (-1, None).
C29_StringCondition ==
    LET p == access.made_from
        m == access.message
        starts == /\ m # <<>> /\ m[1].t = "str"
                  /\ IF access.ignore_case THEN Upper(Take(m[1].v, Len(p))) = Upper(p)
                     ELSE Take(m[1].v, Len(p)) = p
    IN /\ access.raised = None
       /\ access.answer[1] = (IF starts THEN Len(p) ELSE -1)
       /\ IF starts THEN access.answer[2] = Str(p) ELSE access.answer[2] = NoneTok

\* what holds instead: the rank is as stated and the value answered is the
\* upper-cased pattern under ignore_case, unless the head is a list or tuple
\* under ignore_case, where the check raises
C29_RankAndUpperValue ==
    LET p == access.made_from
        m == access.message
        starts == /\ m # <<>> /\ m[1].t = "str"
                  /\ IF access.ignore_case THEN Upper(Take(m[1].v, Len(p))) = Upper(p)
                     ELSE Take(m[1].v, Len(p)) = p
    IN IF m # <<>> /\ m[1].t = "list" /\ access.ignore_case
       THEN access.raised = "AttributeError"
       ELSE /\ access.raised = None
            /\ access.answer[1] = (IF starts THEN Len(p) ELSE -1)
            /\ IF starts
               THEN access.answer[2] = Str(IF access.ignore_case THEN Upper(p) ELSE p)
               ELSE access.answer[2] = NoneTok

\* C30 as stated: the ComplexNotion A, whose only relation is the
\* NextRelation NA without a condition to the Notion X, answers the message
\* next with X.
C30_NextGivesObject ==
    [][(pc = "run" /\ last' = "do_query" /\ current = "A" /\ query = NEXT) =>
            result' = Elem("X")]_vars

\* C30: A answers the message next with its only relation NA, and NA answers
\* next with its object X; a Process queries A, then NA, then X, which has
\* nothing to answer, and the run ends at X with the result True.
C30_Sequencing ==
    [][/\ (pc = "run" /\ last' = "do_query" /\ query = NEXT) =>
            /\ trail'.seen.e = current
            /\ current = "A" => result' = Elem("NA") /\ message' = <<Elem("NA")>> /\ pc' = "run"
            /\ current = "NA" => result' = Elem("X") /\ message' = <<Elem("X")>> /\ pc' = "run"
            /\ current = "X" => result' = Bool(TRUE) /\ (Len(queue) = 1 => pc' = "done")
       /\ (pc = "run" /\ last' = "do_queue_push" /\ message[1].t = "elem") =>
            /\ current' = message[1].v
            /\ message[1].v = "NA" => current \in {None, "A"}
            /\ message[1].v = "X" => current \in {None, "NA"}
       /\ (pc = "run" /\ pc' = "done") => current' = "X" /\ query' = NEXT
      ]_vars

\* A has just answered with its relation
C30_Witness ==
    /\ pc = "run" /\ last = "do_query" /\ trail.seen.e = "A"
    /\ result = Elem("NA") /\ message = <<Elem("NA")>>

\* NA has just answered with its object
C30_WitnessObject ==
    /\ pc = "run" /\ last = "do_query" /\ trail.seen.e = "NA"
    /\ result = Elem("X") /\ message = <<Elem("X")>>

\* a run has ended at X
C30_WitnessEnd ==
    /\ pc = "done" /\ current = "X" /\ trail.seen.e = "X" /\ result = Bool(TRUE)

\* C31: inside one group, a set is merged into the entry on top of the log
\* if and only if that entry is a set of the same key of the same mapping
\* (a set of an absent key is logged as an add, and a set of the same key
\* after it makes a second entry); merged or not, undoing the group gives
\* every key of both mappings the value it had before the group.
C31_LogMerge ==
    [][/\ Len(changes'.added) = Len(changes.added) + 1 =>
            LET op == changes'.added[Len(changes'.added)]
                merged == Len(changes'.stack) = Len(changes.stack)
            IN /\ ~merged => Len(changes'.stack) = Len(changes.stack) + 1
               /\ merged <=> /\ op.type = SET
                             /\ changes.stack # <<>>
                             /\ changes'.top[1].type = SET
                             /\ changes'.top[1].key = op.key
                             /\ changes'.top[1].dict = op.dict
       /\ changes'.undone => changes'.D = changes'.before
      ]_vars

\* what holds of one mapping: with operations on d1 only, the merge rule is
\* the stated one and the undo restores d1
C31_OneMapping ==
    [][(\A i \in 1..Len(changes'.added) : changes'.added[i].dict = "d1") =>
        /\ Len(changes'.added) = Len(changes.added) + 1 =>
            LET op == changes'.added[Len(changes'.added)]
                merged == Len(changes'.stack) = Len(changes.stack)
            IN merged <=> /\ op.type = SET
                          /\ changes.stack # <<>>
                          /\ changes'.top[1].type = SET
                          /\ changes'.top[1].key = op.key
        /\ changes'.undone => changes'.D = changes'.before
      ]_vars

\* C32: a LoopRelation with an exact count never answers push_context,
\* pop_context or forget_context, and as many groups are open at each of its
\* queries (between the iterations and at the end) and after its clear_state
\* as when it started; a flexible LoopRelation has one more group open than
\* at its start whenever it is queried again, at least that many while its
\* object runs, and as many as at its start when it has ended.
C32_FixedNeverSnapshots ==
    [][LET flexible == cfg.loop.k # "num"
           Groups(m) == {k \in 1..Len(m) : m[k] \in {Str(PUSH_CONTEXT), Str(POP_CONTEXT),
                                                     Str(FORGET_CONTEXT)}}
       IN /\ (pc = "run" /\ last' = "do_query" /\ current = "L0" /\ ~flexible) =>
                /\ Groups(message') = {}
                /\ Len(context_stack) = trail'.loop.depth
          /\ (pc = "run" /\ last' = "do_query" /\ current = "L0" /\ flexible
              /\ "L0" \in DOMAIN states) =>
                Len(context_stack) = trail.loop.depth + 1
          /\ (pc = "run" /\ last' = "do_query" /\ current # "L0" /\ flexible
              /\ "L0" \in DOMAIN states /\ trail.loop.out = "running") =>
                Len(context_stack) >= trail.loop.depth + 1
          /\ (pc = "run" /\ last' = "do_clear_state" /\ current = "L0") =>
                Len(context_stack') = trail.loop.depth
      ]_vars

\* a loop of exactly two iterations has ended with no group open, after its
\* object opened and closed a group of its own inside an iteration
C32_Witness ==
    /\ cfg.loop = [k |-> "num", n |-> 2] /\ cfg.onest
    /\ last = "do_clear_state" /\ current = "L0"
    /\ trail.loop.out = "done" /\ trail.loop.visits = 2
    /\ trail.sel.out # ""
    /\ context_stack = <<>>

\* a flexible loop is asked again after its second iteration and has
\* answered, one group still open
C32_WitnessFlexible ==
    /\ cfg.loop.k = "range"
    /\ last = "do_query" /\ trail.seen.e = "L0" /\ trail.loop.visits = 3
    /\ Len(context_stack) = 1

\* C33: when a run of a ParsingProcess has ended with one frame left and
\* its message empty, no group is open and no element has a state slot,
\* also after a break or a continue answered inside an alternation that is
\* the object of a loop.
C33_BalancedRegions ==
    (pc = "done" /\ Len(queue) = 1 /\ message = <<>>) =>
        context_stack = <<>> /\ states = EmptyDict

\* C34: the queue of a Process always holds a frame, and every frame below
\* the top one has a message that is not empty, so that the frame a pop
\* uncovers has work pending.
C34_FrameStackShape ==
    /\ Len(queue) >= 1
    /\ \A i \in 1..(Len(queue) - 1) : queue[i].message # <<>>

\* a pop has uncovered a frame during a call that continued an earlier one
C34_Witness ==
    /\ last = "do_queue_pop" /\ pc = "run"
    /\ message # <<>>
    /\ trail.call.frames

\* a push has stacked a frame on one whose message goes on
C34_WitnessDescent ==
    /\ Len(queue) = 2 /\ pc = "run" /\ last = "do_queue_push"
    /\ message = <<Str(QUERY)>>

\* C35: a top-level call that does not start with `new` keeps the frames
\* below the top and the current element, puts its message on top, keeps
\* every context entry it does not pass and sets the ones it passes, and
\* starts with no group, no state and, in a ParsingProcess, with
\* parsed_length 0, last_parsed "" and the direction `next`
C35_Continuation ==
    [][(last' = "on_handle" /\ ~trail'.call.new) =>
          LET entries == trail'.call.entries
              own == IF cfg.plain THEN {} ELSE {PARSED_LENGTH, LAST_PARSED}
              n == Len(queue)
          IN /\ Len(queue') >= n
             /\ \A i \in 1..(n - 1) : queue'[i] = queue[i]
             /\ message # <<>> => queue'[n] = queue[n]
             /\ queue'[Len(queue')].message = trail'.call.rest
             /\ queue'[Len(queue')].current = current
             /\ DOMAIN context' \ own = (DOMAIN context \cup DOMAIN entries) \ own
             /\ \A k \in DOMAIN entries \ own : context'[k] = entries[k]
             /\ \A k \in (DOMAIN context \ DOMAIN entries) \ own : context'[k] = context[k]
             /\ context_stack' = <<>>
             /\ states' = EmptyDict
             /\ ~cfg.plain => /\ parsed_length' = 0
                              /\ last_parsed' = ""
                              /\ query' = NEXT]_vars

\* a continuation that passes no text met a group and consumed text the
\* earlier call left, and an entry it did not pass
C35_Witness ==
    /\ last = "on_handle" /\ ~trail.call.new
    /\ trail.call.groups
    /\ "x" \in trail.call.old /\ TEXT \in trail.call.old
    /\ text = "b" /\ parsed_length = 0

\* a continuation met frames and a state the earlier call left
C35_WitnessStates ==
    /\ last = "on_handle" /\ ~trail.call.new /\ ~cfg.plain
    /\ trail.call.frames /\ trail.call.kept

\* a continuation of a plain Process met frames and an entry it did not pass
C35_WitnessPlain ==
    /\ last = "on_handle" /\ ~trail.call.new /\ cfg.plain
    /\ trail.call.frames
    /\ "x" \in trail.call.old /\ "y" \in DOMAIN trail.call.entries
    /\ context["x"] = 0 /\ context["y"] = 2

\* the text handed to the call that is running or has ended
Supplied == trail.call.entries[TEXT]

\* parsed_length counts the characters consumed and text is what is left
Accounted ==
    /\ parsed_length + Len(text) = Len(Supplied)
    /\ Len(text) <= Len(Supplied)
    /\ text = SubSeq(Supplied, Len(Supplied) - Len(text) + 1, Len(Supplied))

\* C36: in every state of a top-level call of a ParsingProcess whose text is
\* changed by proceed commands only, among push_context, pop_context and
\* forget_context commands, parsed_length + len(text) is the length of the
\* text the call was given and text is a suffix of it
C36_ConsumptionAccounting == pc # "idle" => Accounted

\* the same where every proceed command has a number that is not negative
C36_CountingForward == (pc # "idle" /\ cfg.menu = CountingMenu) => Accounted

\* characters were consumed inside a group, in a group that was forgotten,
\* and a group with consumed characters was undone
C36_Witness ==
    /\ cfg.menu = CountingMenu /\ pc = "run"
    /\ last = "do_proceed" /\ parsed_length = 2 /\ text = "" /\ context_stack # <<>>

C36_WitnessUndone ==
    /\ cfg.menu = CountingMenu /\ pc = "run"
    /\ last = "do_pop_context" /\ parsed_length = 1 /\ Len(text) = 1 /\ fed = 4

\* the pending work of a call: the frames, the items of their messages and
\* the keys of the mappings among them
Weight(tok) == IF tok.t = "dict" THEN 1 + Cardinality(DOMAIN tok.v) ELSE 1

RECURSIVE Pending(_)
Pending(msg) == IF msg = <<>> THEN 0 ELSE Weight(Head(msg)) + Pending(Tail(msg))

RECURSIVE WorkOf(_)
WorkOf(q) == IF q = <<>> THEN 0 ELSE 1 + Pending(Head(q).message) + WorkOf(Tail(q))

\* a string that has ok or stop as a proper prefix
StartsReserved(tok) ==
    tok.t = "str" /\ tok.v \notin {OK, STOP}
    /\ (Take(tok.v, Len(OK)) = OK \/ Take(tok.v, Len(STOP)) = STOP)

\* C37: in a top-level call whose message holds no element, every dispatch
\* step ends the loop or leaves strictly less pending work, also for a head
\* that only starts with ok or stop
C37_StepShrinks ==
    [][pc = "run" => (pc' # "run" \/ WorkOf(queue') < WorkOf(queue))]_vars

\* C37: a top-level call whose message holds no element terminates
C37_Terminates == <>(pc \in {"done", "raised"})

\* the same for every head that does not merely start with ok or stop
C37_ExactHeadsShrink ==
    [][(pc = "run" /\ ~StartsReserved(Head0)) =>
          (pc' # "run" \/ WorkOf(queue') < WorkOf(queue))]_vars

\* do_finish took a head that starts with stop and the loop goes on with the
\* same message
C37_WitnessPrefix ==
    /\ pc = "run" /\ last = "do_finish" /\ result = Str("stopped")
    /\ message = <<Str("stopped"), Num(1)>>

\* a step of a call without elements left less work and the loop goes on
C37_WitnessShrunk ==
    /\ pc = "run" /\ last = "do_clear_message" /\ message = <<Dict(One("zzz", 1))>>

\* the head of the message is the mapping {proceed: n} with n greater than
\* the length of the remaining text
Overlong ==
    /\ pc = "run" /\ ~cfg.plain /\ message # <<>>
    /\ Head0.t = "dict" /\ DOMAIN Head0.v = {PROCEED}
    /\ Head0.v[PROCEED] > Len(text)

\* the step left the context and the message as they were and ended the
\* run with the result False
NotApplied ==
    /\ context' = context
    /\ queue' = queue
    /\ pc' = "done"
    /\ result' = Bool(FALSE)

\* C38: a mapping {proceed: n} with n greater than the length of the
\* remaining text is not applied: the text, parsed_length and last_parsed
\* stay, the command stays at the head of the message and the run ends with
\* the result False; nothing is raised
C38_OverlongProceed == [][Overlong => NotApplied]_vars

\* the same where the context of the run holds a text
C38_OverlongWithText == [][(Overlong /\ TEXT \in DOMAIN context) => NotApplied]_vars

\* an over-long proceed ended a run after one character was consumed
C38_Witness ==
    /\ pc = "done" /\ last = "" /\ result = Bool(FALSE)
    /\ message # <<>> /\ message[1] = Dict(One(PROCEED, 2))
    /\ text = "b" /\ parsed_length = 1 /\ last_parsed = "a"

\* a proceed met a context without text
C38_WitnessRaised ==
    /\ pc = "raised" /\ last = "can_proceed" /\ TEXT \notin DOMAIN context

\* C39: the default of a SelectiveNotion is None or one of its relations,
\* whatever defaults and subjects were assigned
C39_DefaultAmongRelations ==
    \A c \in SNotions :
        elements.default[c] = None \/ InList(elements.default[c], elements.relations[c])

\* C39: assigning as default a relation whose subject is another notion, or
\* none, changes nothing
C39_ForeignIgnored ==
    [][(/\ elements'.last.op = "default"
        /\ elements'.last.value # None
        /\ elements.subject[elements'.last.value] # "b")
          => elements'.default = elements.default]_vars

\* C39: taking the default relation away from the notion sets the default
\* to None
C39_DetachResets ==
    [][\A r \in Rels :
          (elements.default["b"] = r /\ elements'.subject[r] # "b")
             => elements'.default["b"] = None]_vars

\* b has a default
C39_Witness ==
    /\ elements.default["b"] = "r1" /\ elements.relations["b"] = <<"r2", "r1">>
    /\ elements.last.op = "default"

\* the default relation of b was given to a: the default is None again
C39_WitnessDetached ==
    /\ elements.last.op = "subject" /\ elements.last.had["b"] = elements.last.of
    /\ elements.last.value = "a" /\ elements.default["b"] = None

\* a relation of a was assigned as the default of b, which had a default
C39_WitnessForeign ==
    /\ elements.last.op = "default" /\ elements.last.value = "r2"
    /\ elements.subject["r2"] = "a" /\ elements.last.had["b"] = "r1"
    /\ elements.default["b"] = "r1"

====
